---- MODULE Spec2Model ----
(***************************************************************************)
(* Client, session and simulator of the YubiHSM2 driver as a state         *)
(* machine.  One client talks through one connector to one HSM.  Every     *)
(* client call (open, connect, echo, reset_device, drop) is one atomic     *)
(* action: the calls are synchronous and blocking, and the frames a call   *)
(* hands to the connector are recorded in `last`.                          *)
(*                                                                         *)
(* Abstractions.  Keys, cryptograms and MAC tags are symbolic: a tag is    *)
(* the pair (key, position in the MAC chain) it was computed from, so two  *)
(* tags are equal exactly when key and chaining value agree.  The 16-byte  *)
(* chaining value is represented by the number of CMAC steps taken on the  *)
(* channel.  An Option<T> is a sequence of length 0 (None) or 1 (Some).    *)
(*                                                                         *)
(* Five specifications share the variables: Spec (the client's session     *)
(* life cycle over a connector that may fail), SimSpec (the simulator      *)
(* alone, fed raw frames), CallSpec (the client calls that validate their  *)
(* arguments or interpret the response), FlightSpec (several callers of    *)
(* one session) and StoreSpec (the simulator reading a store of objects).  *)
(***************************************************************************)
EXTENDS Integers, Sequences, FiniteSets, TLC

VARIABLES client, hsm, now, last

vars == <<client, hsm, now, last>>

(***************************************************************************)
(* Program constants                                                       *)
(***************************************************************************)
SESSION_INACTIVITY_TIMEOUT == 30

TIMEOUT_SKEW_INTERVAL == 1

(***************************************************************************)
(* Bounds of the model                                                     *)
(***************************************************************************)
\* wall-clock seconds the model lets pass
MaxNow == 30

\* slots of the HSM's sessions table
MaxSessions == 2

\* a call is started only while the session's encryption counter is below this
MaxCounter == 3

\* object ids 1 .. MaxObjectId exist in the simulator's object store
MaxObjectId == 2

(***************************************************************************)
(* Option<T>                                                               *)
(***************************************************************************)
None == <<>>

Some(x) == <<x>>

IsSome(o) == Len(o) = 1

(***************************************************************************)
(* Keys, cryptograms, tags, frames                                         *)
(***************************************************************************)
\* the authentication key installed in the HSM under DEFAULT_AUTH_KEY_ID,
\* and a key the HSM does not hold
AuthKeys == {"default", "other"}

DEFAULT_AUTH_KEY_ID == 1

DefaultAuthKey == "default"

\* 8-byte KDF outputs proving possession of the session keys
Cryptogram(who, key, sid) == [who |-> who, key |-> key, sid |-> sid]

NoCryptogram == Cryptogram("-", "-", -1)

\* truncated CMAC under `key` over chaining value `chain` and the frame
Tag(key, chain) == [key |-> key, chain |-> chain]

NoTag == Tag("-", -1)

\* inner (plaintext) command or response of a SessionMessage
Inner(code, data) == [code |-> code, data |-> data]

NoInner == Inner("-", "-")

\* a command frame handed to the connector
Frame(code, sid, inner, cryptogram, ctr, tag) ==
    [code |-> code, sid |-> sid, inner |-> inner, cryptogram |-> cryptogram,
     ctr |-> ctr, tag |-> tag]

\* what the connector returns: kind is "Message", "ConnectionError", "Panic"
\* or "Garbled" (bytes that ResponseMessage::parse rejects)
Rsp(kind, code, sid, inner, cryptogram, tag) ==
    [kind |-> kind, code |-> code, sid |-> sid, inner |-> inner,
     cryptogram |-> cryptogram, tag |-> tag]

ConnectionError == Rsp("ConnectionError", "-", -1, NoInner, NoCryptogram, NoTag)

Panic == Rsp("Panic", "-", -1, NoInner, NoCryptogram, NoTag)

Garbled == Rsp("Garbled", "-", -1, NoInner, NoCryptogram, NoTag)

\* response frame 0x7F with a one-byte HsmErrorKind
DeviceError(kind) ==
    Rsp("Message", "DeviceError", -1, Inner("DeviceError", kind), NoCryptogram, NoTag)

(***************************************************************************)
(* Secure channel (both peers)                                             *)
(***************************************************************************)
\* security_level: "None" after the CreateSession exchange, "Authenticated"
\* after AuthenticateSession, "Terminated" once a MAC verification failed
Channel_new(id, key) ==
    [id |-> id, key |-> key, security_level |-> "None",
     counter |-> 1, mac_chaining_value |-> 0]

Channel_card_cryptogram(ch) == Cryptogram("card", ch.key, ch.id)

Channel_host_cryptogram(ch) == Cryptogram("host", ch.key, ch.id)

Channel_terminate(ch) == [ch EXCEPT !.security_level = "Terminated"]

\* host side: AuthenticateSession carries the host cryptogram under a MAC
\* computed over the zero chaining value; the tag becomes the chaining value
Channel_authenticate_session(ch) ==
    [ch |-> [ch EXCEPT !.mac_chaining_value = 1],
     frame |-> Frame("AuthenticateSession", ch.id, NoInner,
                     Channel_host_cryptogram(ch), 0, Tag(ch.key, 0))]

\* host side: verify the MACed empty OK answering AuthenticateSession
Channel_finish_authenticate_session(ch, rsp) ==
    IF rsp.tag = Tag(ch.key, ch.mac_chaining_value)
    THEN [ok |-> TRUE,
          ch |-> [ch EXCEPT !.security_level = "Authenticated",
                            !.mac_chaining_value = @ + 1]]
    ELSE [ok |-> FALSE, ch |-> Channel_terminate(ch)]

\* host side: pad, encrypt under the IV of the current counter, MAC, then
\* increment the counter
Channel_encrypt_command(ch, inner) ==
    IF ch.security_level # "Authenticated"
    THEN [ok |-> FALSE, ch |-> ch, frame |-> Frame("-", -1, NoInner, NoCryptogram, 0, NoTag)]
    ELSE [ok |-> TRUE,
          ch |-> [ch EXCEPT !.counter = @ + 1, !.mac_chaining_value = @ + 1],
          frame |-> Frame("SessionMessage", ch.id, inner, NoCryptogram,
                          ch.counter, Tag(ch.key, ch.mac_chaining_value))]

\* host side: verify the response MAC, advance the chain, decrypt
Channel_decrypt_response(ch, rsp) ==
    IF rsp.tag = Tag(ch.key, ch.mac_chaining_value)
    THEN [ok |-> TRUE, ch |-> [ch EXCEPT !.mac_chaining_value = @ + 1],
          inner |-> rsp.inner]
    ELSE [ok |-> FALSE, ch |-> Channel_terminate(ch), inner |-> NoInner]

\* card side: verify host cryptogram and MAC of AuthenticateSession and build
\* the MACed empty answer
Channel_verify_authenticate_session(ch, frame) ==
    IF /\ ch.security_level = "None"
       /\ frame.cryptogram = Channel_host_cryptogram(ch)
       /\ frame.tag = Tag(ch.key, 0)
    THEN [ok |-> TRUE,
          ch |-> [ch EXCEPT !.security_level = "Authenticated",
                            !.mac_chaining_value = 2],
          rsp |-> Rsp("Message", "AuthenticateSession", ch.id, NoInner,
                      NoCryptogram, Tag(ch.key, 1))]
    ELSE [ok |-> FALSE, ch |-> Channel_terminate(ch), rsp |-> Panic]

\* card side: verify the command MAC, advance the chain, decrypt under the
\* IV of the card's counter
Channel_decrypt_command(ch, frame) ==
    IF /\ ch.security_level = "Authenticated"
       /\ frame.tag = Tag(ch.key, ch.mac_chaining_value)
       /\ frame.ctr = ch.counter
    THEN [ok |-> TRUE, ch |-> [ch EXCEPT !.mac_chaining_value = @ + 1],
          inner |-> frame.inner]
    ELSE [ok |-> FALSE, ch |-> Channel_terminate(ch), inner |-> NoInner]

\* card side: encrypt and MAC a response, then increment the counter
Channel_encrypt_response(ch, inner) ==
    [ch |-> [ch EXCEPT !.counter = @ + 1, !.mac_chaining_value = @ + 1],
     rsp |-> Rsp("Message", "SessionMessage", ch.id, inner, NoCryptogram,
                 Tag(ch.key, ch.mac_chaining_value))]

(***************************************************************************)
(* Simulator: state                                                        *)
(***************************************************************************)
SessionIds == 0 .. (MaxSessions - 1)

\* the object store is keyed by (id, type); id 0 is never a key: in a request
\* it asks the simulator to choose the id
ObjectIds == 1 .. MaxObjectId

ObjectTypes == {"AuthenticationKey", "Opaque", "AsymmetricKey", "HmacKey", "WrapKey"}

ObjectKeys == ObjectIds \X ObjectTypes

\* the hard-coded default objects: the default authentication key
DefaultObjects ==
    [k \in ObjectKeys |->
        IF k = <<DEFAULT_AUTH_KEY_ID, "AuthenticationKey">>
        THEN Some(DefaultAuthKey) ELSE None]

AuditOptions == {"Off", "On", "Fix"}

\* the commands whose audit option the model sets
AuditCommands == {"Echo", "SignEddsa"}

\* a fresh simulator: no sessions, the default objects, auditing off
State_new ==
    [sessions |-> [i \in SessionIds |-> None],
     objects |-> DefaultObjects,
     force_audit |-> "Off",
     command_audit_options |-> [c \in AuditCommands |-> "Off"]]

Objects_get(objects, id, type) ==
    IF <<id, type>> \in ObjectKeys THEN objects[<<id, type>>] ELSE None

Objects_has_free_id(objects, type) ==
    \E i \in ObjectIds : objects[<<i, type>>] = None

\* the lowest id without an object of the type
Objects_free_id(objects, type) ==
    CHOOSE i \in ObjectIds :
        /\ objects[<<i, type>>] = None
        /\ \A j \in ObjectIds : objects[<<j, type>>] = None => i <= j

\* store an object: id 0 asks for an id chosen by the store; an id already
\* taken for the type is a collision and the stored object is kept
Objects_put(objects, id, type, payload) ==
    IF id = 0
    THEN IF Objects_has_free_id(objects, type)
         THEN [objects EXCEPT ![<<Objects_free_id(objects, type), type>>] = Some(payload)]
         ELSE objects
    ELSE IF <<id, type>> \notin ObjectKeys THEN objects
    ELSE IF objects[<<id, type>>] # None THEN objects
    ELSE [objects EXCEPT ![<<id, type>>] = Some(payload)]

\* store an object whose payload the store generates
Objects_generate(objects, id, type) == Objects_put(objects, id, type, "generated")

\* remove the object under (id, type); `removed` is what was there
Objects_remove(objects, id, type) ==
    IF <<id, type>> \in ObjectKeys
    THEN [objects |-> [objects EXCEPT ![<<id, type>>] = None],
          removed |-> objects[<<id, type>>]]
    ELSE [objects |-> objects, removed |-> None]

\* the capabilities an object may carry
Capabilities == {"SignEddsa", "ExportableUnderWrap"}

\* the payload of a wrap key together with the capabilities it may delegate
WrapKey(key, delegated_capabilities) ==
    [key |-> key, delegated_capabilities |-> delegated_capabilities]

\* an object wrapped (AES-CCM) under `key`: nonce and ciphertext of its
\* info and payload
Wrapped(key, id, type, capabilities, payload) ==
    [key |-> key, id |-> id, type |-> type, capabilities |-> capabilities,
     payload |-> payload]

\* import a wrapped object: the wrap key must exist and authenticate the
\* ciphertext, and the object's capabilities must be among those the wrap
\* key delegates
Objects_unwrap(objects, wrap_key_id, ciphertext) ==
    IF Objects_get(objects, wrap_key_id, "WrapKey") = None
    THEN [ok |-> FALSE, objects |-> objects]
    ELSE IF Objects_get(objects, wrap_key_id, "WrapKey")[1].key # ciphertext.key
    THEN [ok |-> FALSE, objects |-> objects]
    ELSE IF ~(ciphertext.capabilities \subseteq
                  Objects_get(objects, wrap_key_id, "WrapKey")[1].delegated_capabilities)
    THEN [ok |-> FALSE, objects |-> objects]
    ELSE [ok |-> TRUE,
          objects |-> Objects_put(objects, ciphertext.id, ciphertext.type,
                                  ciphertext.payload)]

State_get_session(state, id) ==
    IF id \in SessionIds THEN state.sessions[id] ELSE None

\* the lowest free session id
State_free_id(state) ==
    CHOOSE i \in SessionIds :
        /\ state.sessions[i] = None
        /\ \A j \in SessionIds : state.sessions[j] = None => i <= j

\* a new half-open session under the authentication key `key_id`
State_create_session(state, key_id) ==
    LET id == State_free_id(state)
        ch == Channel_new(id, IF key_id = DEFAULT_AUTH_KEY_ID
                              THEN DefaultAuthKey ELSE "unknown")
    IN  [state |-> [state EXCEPT !.sessions[id] = Some(ch)], session |-> ch]

State_put_session(state, ch) == [state EXCEPT !.sessions[ch.id] = Some(ch)]

State_close_session(state, id) == [state EXCEPT !.sessions[id] = None]

\* back to the default state: every session is gone
State_reset(state) == State_new

\* simulator session: verify and decrypt a SessionMessage; a command whose
\* MAC does not verify ends the session and is answered with a device error
Session_decrypt_command(state, ch, frame) ==
    LET d == Channel_decrypt_command(ch, frame)
    IN  IF d.ok
        THEN [ok |-> TRUE, state |-> State_put_session(state, d.ch),
              inner |-> d.inner, rsp |-> Panic]
        ELSE [ok |-> FALSE, state |-> State_close_session(state, ch.id),
              inner |-> NoInner, rsp |-> DeviceError("AuthFail")]

\* simulator session: encrypt a response under the session's keys
Session_encrypt_response(state, id, inner) ==
    LET e == Channel_encrypt_response(State_get_session(state, id)[1], inner)
    IN  [state |-> State_put_session(state, e.ch), rsp |-> e.rsp]

(***************************************************************************)
(* Simulator: command handlers (mockhsm/command.rs)                        *)
(***************************************************************************)
create_session(state, frame) ==
    IF \A i \in SessionIds : state.sessions[i] # None
    THEN [state |-> state, rsp |-> DeviceError("SessionsFull")]
    ELSE LET c == State_create_session(state, frame.inner.data)
         IN  [state |-> c.state,
              rsp |-> Rsp("Message", "CreateSession", c.session.id, NoInner,
                          Channel_card_cryptogram(c.session), NoTag)]

authenticate_session(state, frame) ==
    LET s == State_get_session(state, frame.sid)
    IN  IF s = None
        THEN [state |-> state, rsp |-> ConnectionError]
        ELSE LET v == Channel_verify_authenticate_session(s[1], frame)
             IN  [state |-> State_put_session(state, v.ch), rsp |-> v.rsp]

\* the data of a command about an object, as the handler's deserialize sees
\* it: `ok` is whether the bytes parse
ObjectParams(id, type, payload) ==
    [ok |-> TRUE, id |-> id, type |-> type, payload |-> payload]

\* the data of a SetOption command
OptionParams(tag, command, value) ==
    [ok |-> TRUE, tag |-> tag, command |-> command, value |-> value]

\* command data that does not parse
Malformed == [ok |-> FALSE, id |-> 0, type |-> "-", payload |-> "-"]

\* what a handler returns: the state and the response message; the response
\* PanicInner stands for a handler that panicked
Handled(state, inner) == [state |-> state, inner |-> inner]

PanicInner == Inner("Panic", "-")

\* variant: the object id alone selects what is removed
delete_object_AnyType(state, cmd_data) ==
    IF ~cmd_data.ok THEN Handled(state, PanicInner)
    ELSE IF \E k \in ObjectKeys : k[1] = cmd_data.id /\ state.objects[k] # None
    THEN Handled([state EXCEPT !.objects =
                      [k \in ObjectKeys |-> IF k[1] = cmd_data.id THEN None ELSE @[k]]],
                 Inner("DeleteObject", "-"))
    ELSE Handled(state, Inner("DeviceError", "ObjectNotFound"))

delete_object(state, cmd_data) ==
    IF ~cmd_data.ok THEN Handled(state, PanicInner)
    ELSE IF Objects_remove(state.objects, cmd_data.id, cmd_data.type).removed # None
    THEN Handled([state EXCEPT !.objects =
                      Objects_remove(@, cmd_data.id, cmd_data.type).objects],
                 Inner("DeleteObject", "-"))
    ELSE Handled(state, Inner("DeviceError", "ObjectNotFound"))

echo(data) == Inner("Echo", data)

gen_asymmetric_key(state, cmd_data) ==
    IF ~cmd_data.ok THEN Handled(state, PanicInner)
    ELSE Handled([state EXCEPT !.objects =
                      Objects_generate(@, cmd_data.id, "AsymmetricKey")],
                 Inner("GenerateAsymmetricKey", cmd_data.id))

put_asymmetric_key(state, cmd_data) ==
    IF ~cmd_data.ok THEN Handled(state, PanicInner)
    ELSE Handled([state EXCEPT !.objects =
                      Objects_put(@, cmd_data.id, "AsymmetricKey", cmd_data.payload)],
                 Inner("PutAsymmetricKey", cmd_data.id))

put_authentication_key(state, cmd_data) ==
    IF ~cmd_data.ok THEN Handled(state, PanicInner)
    ELSE Handled([state EXCEPT !.objects =
                      Objects_put(@, cmd_data.id, "AuthenticationKey", cmd_data.payload)],
                 Inner("PutAuthenticationKey", cmd_data.id))

put_opaque(state, cmd_data) ==
    IF ~cmd_data.ok THEN Handled(state, PanicInner)
    ELSE Handled([state EXCEPT !.objects =
                      Objects_put(@, cmd_data.id, "Opaque", cmd_data.payload)],
                 Inner("PutOpaqueObject", cmd_data.id))

\* an option value that is no AuditOption fails from_u8(..).unwrap() or the
\* parse of the AuditCommand
put_option(state, cmd_data) ==
    IF ~cmd_data.ok THEN Handled(state, PanicInner)
    ELSE IF cmd_data.value \notin AuditOptions THEN Handled(state, PanicInner)
    ELSE IF cmd_data.tag = "Force"
    THEN Handled([state EXCEPT !.force_audit = cmd_data.value], Inner("SetOption", "-"))
    ELSE Handled([state EXCEPT !.command_audit_options[cmd_data.command] = cmd_data.value],
                 Inner("SetOption", "-"))

\* AuditOption::to_u8
AuditOption_to_u8(option) ==
    CASE option = "Off" -> 0
      [] option = "On" -> 1
      [] option = "Fix" -> 2

\* AuditOption::from_u8: None for a byte that is no option
AuditOption_from_u8(byte) ==
    CASE byte = 0 -> Some("Off")
      [] byte = 1 -> Some("On")
      [] byte = 2 -> Some("Fix")
      [] OTHER -> None

\* an entry of the serialized audit options of the commands
AuditCommand(command, option) == <<command, option>>

\* CommandAuditOptions::serialize: one entry for each command
CommandAuditOptions_serialize(options) ==
    {AuditCommand(c, options[c]) : c \in DOMAIN options}

\* the data of a GetOption command
GetOptionParams(tag) == [ok |-> TRUE, tag |-> tag]

\* variant: the option of the first command is reported for every command
get_option_Confused(state, cmd_data) ==
    IF ~cmd_data.ok THEN Handled(state, PanicInner)
    ELSE IF cmd_data.tag = "Command"
    THEN Handled(state,
             Inner("GetOption",
                   {AuditCommand(c, state.command_audit_options["Echo"]) :
                        c \in DOMAIN state.command_audit_options}))
    ELSE Handled(state, Inner("GetOption", <<AuditOption_to_u8(state.force_audit)>>))

get_option(state, cmd_data) ==
    IF ~cmd_data.ok THEN Handled(state, PanicInner)
    ELSE IF cmd_data.tag = "Command"
    THEN Handled(state,
             Inner("GetOption", CommandAuditOptions_serialize(state.command_audit_options)))
    ELSE Handled(state, Inner("GetOption", <<AuditOption_to_u8(state.force_audit)>>))

put_hmac_key(state, cmd_data) ==
    IF ~cmd_data.ok THEN Handled(state, PanicInner)
    ELSE Handled([state EXCEPT !.objects =
                      Objects_put(@, cmd_data.id, "HmacKey", cmd_data.payload)],
                 Inner("PutHmacKey", cmd_data.id))

\* the payload of the command is the key and its delegated capabilities
put_wrap_key(state, cmd_data) ==
    IF ~cmd_data.ok THEN Handled(state, PanicInner)
    ELSE Handled([state EXCEPT !.objects =
                      Objects_put(@, cmd_data.id, "WrapKey", cmd_data.payload)],
                 Inner("PutWrapKey", cmd_data.id))

\* the command data is the 16-bit number of bytes asked for; the response
\* data is as many bytes, modelled by their number
get_pseudo_random(state, cmd_data) == Handled(state, Inner("GetPseudoRandom", cmd_data))

\* the data of an ImportWrapped command
ImportParams(wrap_key_id, ciphertext) ==
    [ok |-> TRUE, wrap_key_id |-> wrap_key_id, ciphertext |-> ciphertext]

\* variant: the object is stored whatever unwrap says
import_wrapped_Accepting(state, cmd_data) ==
    IF ~cmd_data.ok THEN Handled(state, PanicInner)
    ELSE Handled([state EXCEPT !.objects =
                      Objects_put(@, cmd_data.ciphertext.id, cmd_data.ciphertext.type,
                                  cmd_data.ciphertext.payload)],
                 Inner("ImportWrapped", <<cmd_data.ciphertext.type, cmd_data.ciphertext.id>>))

import_wrapped(state, cmd_data) ==
    IF ~cmd_data.ok THEN Handled(state, PanicInner)
    ELSE IF Objects_unwrap(state.objects, cmd_data.wrap_key_id, cmd_data.ciphertext).ok
    THEN Handled([state EXCEPT !.objects =
                      Objects_unwrap(@, cmd_data.wrap_key_id, cmd_data.ciphertext).objects],
                 Inner("ImportWrapped", <<cmd_data.ciphertext.type, cmd_data.ciphertext.id>>))
    ELSE Handled(state, Inner("DeviceError", "InvalidCommand"))

\* the length of a SHA-256 digest and of an HMAC-SHA256 tag
HMAC_TAG_LEN == 32

\* HMAC-SHA256 of msg under key, byte by byte: a byte is named by the key
\* and the message it was computed from and by its position in the tag
Hmac(key, msg) == [i \in 1 .. HMAC_TAG_LEN |-> <<key, msg, i>>]

\* the data of a VerifyHmac command: the tag followed by the message
VerifyParams(key_id, tag, msg) == [ok |-> TRUE, key_id |-> key_id, data |-> tag \o msg]

\* the first 32 bytes of the data are the tag, the rest is the message;
\* slicing data shorter than a tag panics
verify_hmac(state, cmd_data) ==
    IF ~cmd_data.ok THEN Handled(state, PanicInner)
    ELSE IF Objects_get(state.objects, cmd_data.key_id, "HmacKey") = None
    THEN Handled(state, Inner("DeviceError", "ObjectNotFound"))
    ELSE IF Len(cmd_data.data) < HMAC_TAG_LEN THEN Handled(state, PanicInner)
    ELSE Handled(state,
             Inner("VerifyHmac",
                   IF Hmac(Objects_get(state.objects, cmd_data.key_id, "HmacKey")[1],
                           SubSeq(cmd_data.data, HMAC_TAG_LEN + 1, Len(cmd_data.data)))
                          = SubSeq(cmd_data.data, 1, HMAC_TAG_LEN)
                   THEN 1 ELSE 0))

(***************************************************************************)
(* Simulator: handlers that read objects and their attributes              *)
(***************************************************************************)
\* a stored object with its attributes, as these handlers read it
ObjectInfo(id, type, algorithm, capabilities, domains, label) ==
    [object_id |-> id, object_type |-> type, algorithm |-> algorithm,
     capabilities |-> capabilities, domains |-> domains, label |-> label,
     sequence |-> 0]

\* the payload of an object: its kind and its bytes
Payload(kind, bytes) == [kind |-> kind, bytes |-> bytes]

Object(object_info, payload) == [object_info |-> object_info, payload |-> payload]

\* a filter of ListObjects
Filter(tag, value) == [tag |-> tag, value |-> value]

\* Filter::serialize of each filter in turn: the tag, then the value
Filters_serialize(filters) ==
    [i \in 1 .. 2 * Len(filters) |->
        IF i % 2 = 1 THEN filters[(i + 1) \div 2].tag ELSE filters[i \div 2].value]

\* the loop of list_objects that reads filters until the data is used up
Filters_deserialize(bytes) ==
    [j \in 1 .. Len(bytes) \div 2 |-> Filter(bytes[2 * j - 1], bytes[2 * j])]

\* the data of a ListObjects command
ListParams(bytes) == [ok |-> TRUE, bytes |-> bytes]

\* the match of one filter against the attributes of an object
Filter_matches(filter, info) ==
    CASE filter.tag = "Algorithm" -> info.algorithm = filter.value
      [] filter.tag = "Capabilities" -> filter.value \subseteq info.capabilities
      [] filter.tag = "Domains" -> filter.value \subseteq info.domains
      [] filter.tag = "Label" -> info.label = filter.value
      [] filter.tag = "Id" -> info.object_id = filter.value
      [] filter.tag = "Type" -> info.object_type = filter.value

ListObjectsEntry(info) ==
    [object_id |-> info.object_id, object_type |-> info.object_type,
     sequence |-> info.sequence]

\* the entries of the objects the filters let pass
list_objects_entries(objects, filters) ==
    {ListObjectsEntry(objects[k][1].object_info) :
         k \in {k \in DOMAIN objects :
                    IF objects[k] = None THEN FALSE
                    ELSE IF filters = <<>> THEN TRUE
                    ELSE \A i \in DOMAIN filters :
                             Filter_matches(filters[i], objects[k][1].object_info)}}

\* variant: an object is listed when any one filter matches
list_objects_Any(state, cmd_data) ==
    IF ~cmd_data.ok THEN Handled(state, PanicInner)
    ELSE Handled(state,
             Inner("ListObjects",
                   {ListObjectsEntry(state.objects[k][1].object_info) :
                        k \in {k \in DOMAIN state.objects :
                                   IF state.objects[k] = None THEN FALSE
                                   ELSE IF cmd_data.bytes = <<>> THEN TRUE
                                   ELSE \E i \in DOMAIN Filters_deserialize(cmd_data.bytes) :
                                            Filter_matches(
                                                Filters_deserialize(cmd_data.bytes)[i],
                                                state.objects[k][1].object_info)}}))

list_objects(state, cmd_data) ==
    IF ~cmd_data.ok THEN Handled(state, PanicInner)
    ELSE Handled(state,
             Inner("ListObjects",
                   list_objects_entries(state.objects, Filters_deserialize(cmd_data.bytes))))

get_object_info(state, cmd_data) ==
    IF ~cmd_data.ok THEN Handled(state, PanicInner)
    ELSE IF Objects_get(state.objects, cmd_data.id, cmd_data.type) = None
    THEN Handled(state, Inner("DeviceError", "ObjectNotFound"))
    ELSE Handled(state,
             Inner("GetObjectInfo",
                   Objects_get(state.objects, cmd_data.id, cmd_data.type)[1].object_info))

\* variant: the object is taken out of the store as it is read
get_opaque_Take(state, cmd_data) ==
    IF ~cmd_data.ok THEN Handled(state, PanicInner)
    ELSE IF Objects_get(state.objects, cmd_data.id, "Opaque") = None
    THEN Handled(state, Inner("DeviceError", "ObjectNotFound"))
    ELSE Handled([state EXCEPT !.objects =
                      Objects_remove(@, cmd_data.id, "Opaque").objects],
                 Inner("GetOpaqueObject",
                       Objects_get(state.objects, cmd_data.id, "Opaque")[1].payload.bytes))

get_opaque(state, cmd_data) ==
    IF ~cmd_data.ok THEN Handled(state, PanicInner)
    ELSE IF Objects_get(state.objects, cmd_data.id, "Opaque") = None
    THEN Handled(state, Inner("DeviceError", "ObjectNotFound"))
    ELSE Handled(state,
             Inner("GetOpaqueObject",
                   Objects_get(state.objects, cmd_data.id, "Opaque")[1].payload.bytes))

\* the payloads that hold a key pair
KeyPairs == {"Ed25519KeyPair", "EcdsaKeyPair"}

\* the unwraps of the algorithm and of the public key bytes panic for an
\* object that holds no key pair
get_public_key(state, cmd_data) ==
    IF ~cmd_data.ok THEN Handled(state, PanicInner)
    ELSE IF Objects_get(state.objects, cmd_data.id, "AsymmetricKey") = None
    THEN Handled(state, Inner("DeviceError", "ObjectNotFound"))
    ELSE IF Objects_get(state.objects, cmd_data.id, "AsymmetricKey")[1].payload.kind
                \notin KeyPairs
    THEN Handled(state, PanicInner)
    ELSE Handled(state,
             Inner("GetPublicKey",
                   <<"public",
                     Objects_get(state.objects, cmd_data.id, "AsymmetricKey")[1].payload.bytes>>))

\* the signature is named by the key and the data it was computed from
sign_eddsa(state, cmd_data) ==
    IF ~cmd_data.ok THEN Handled(state, PanicInner)
    ELSE IF Objects_get(state.objects, cmd_data.id, "AsymmetricKey") = None
    THEN Handled(state, Inner("DeviceError", "ObjectNotFound"))
    ELSE IF Objects_get(state.objects, cmd_data.id, "AsymmetricKey")[1].payload.kind
                # "Ed25519KeyPair"
    THEN Handled(state, Inner("DeviceError", "InvalidCommand"))
    ELSE Handled(state,
             Inner("SignEddsa",
                   <<"ed25519",
                     Objects_get(state.objects, cmd_data.id, "AsymmetricKey")[1].payload.bytes,
                     cmd_data.payload>>))

sign_hmac(state, cmd_data) ==
    IF ~cmd_data.ok THEN Handled(state, PanicInner)
    ELSE IF Objects_get(state.objects, cmd_data.id, "HmacKey") = None
    THEN Handled(state, Inner("DeviceError", "ObjectNotFound"))
    ELSE IF Objects_get(state.objects, cmd_data.id, "HmacKey")[1].payload.kind # "HmacKey"
    THEN Handled(state, Inner("DeviceError", "InvalidCommand"))
    ELSE Handled(state,
             Inner("SignHmac",
                   Hmac(Objects_get(state.objects, cmd_data.id, "HmacKey")[1].payload.bytes,
                        cmd_data.payload)))

\* variant: the response is encrypted but the session is kept
close_session_Keep(state, session_id) ==
    Session_encrypt_response(state, session_id, Inner("CloseSession", "-"))

close_session(state, session_id) ==
    LET e == Session_encrypt_response(state, session_id, Inner("CloseSession", "-"))
    IN  [state |-> State_close_session(e.state, session_id), rsp |-> e.rsp]

\* variant: the response is encrypted but the state is not reset
reset_device_KeepState(state, session_id) ==
    Session_encrypt_response(state, session_id, Inner("ResetDevice", 1))

\* variant: the state is reset first, so the session whose keys should
\* encrypt the response is gone when it is looked up
reset_device_TeardownFirst(state, session_id) ==
    IF State_get_session(State_reset(state), session_id) = None
    THEN [state |-> State_reset(state), rsp |-> Panic]
    ELSE Session_encrypt_response(State_reset(state), session_id, Inner("ResetDevice", 1))

reset_device(state, session_id) ==
    LET e == Session_encrypt_response(state, session_id, Inner("ResetDevice", 1))
    IN  [state |-> State_reset(e.state), rsp |-> e.rsp]

\* session_message, once the handler returned (h): the response is encrypted
\* under the session's keys
session_message_respond(h, session_id) ==
    IF h.inner = PanicInner THEN [state |-> h.state, rsp |-> Panic]
    ELSE Session_encrypt_response(h.state, session_id, h.inner)

\* session_message, after the command was decrypted (d): the match on the
\* inner command type and the encryption of the response
session_message_dispatch(d, session_id) ==
    IF ~d.ok THEN [state |-> d.state, rsp |-> d.rsp]
    ELSE CASE d.inner.code = "CloseSession" -> close_session(d.state, session_id)
           [] d.inner.code = "ResetDevice" -> reset_device(d.state, session_id)
           [] d.inner.code = "DeleteObject" ->
                session_message_respond(delete_object(d.state, d.inner.data), session_id)
           [] d.inner.code = "Echo" ->
                session_message_respond(Handled(d.state, echo(d.inner.data)), session_id)
           [] d.inner.code = "GenerateAsymmetricKey" ->
                session_message_respond(gen_asymmetric_key(d.state, d.inner.data), session_id)
           [] d.inner.code = "PutAsymmetricKey" ->
                session_message_respond(put_asymmetric_key(d.state, d.inner.data), session_id)
           [] d.inner.code = "PutAuthenticationKey" ->
                session_message_respond(put_authentication_key(d.state, d.inner.data), session_id)
           [] d.inner.code = "PutOpaqueObject" ->
                session_message_respond(put_opaque(d.state, d.inner.data), session_id)
           [] d.inner.code = "SetOption" ->
                session_message_respond(put_option(d.state, d.inner.data), session_id)
           [] d.inner.code = "GetObjectInfo" ->
                session_message_respond(get_object_info(d.state, d.inner.data), session_id)
           [] d.inner.code = "GetOpaqueObject" ->
                session_message_respond(get_opaque(d.state, d.inner.data), session_id)
           [] d.inner.code = "GetPublicKey" ->
                session_message_respond(get_public_key(d.state, d.inner.data), session_id)
           [] d.inner.code = "ListObjects" ->
                session_message_respond(list_objects(d.state, d.inner.data), session_id)
           [] d.inner.code = "SignEddsa" ->
                session_message_respond(sign_eddsa(d.state, d.inner.data), session_id)
           [] d.inner.code = "SignHmac" ->
                session_message_respond(sign_hmac(d.state, d.inner.data), session_id)
           [] d.inner.code = "GetOption" ->
                session_message_respond(get_option(d.state, d.inner.data), session_id)
           [] d.inner.code = "GetPseudoRandom" ->
                session_message_respond(get_pseudo_random(d.state, d.inner.data), session_id)
           [] d.inner.code = "ImportWrapped" ->
                session_message_respond(import_wrapped(d.state, d.inner.data), session_id)
           [] d.inner.code = "PutHmacKey" ->
                session_message_respond(put_hmac_key(d.state, d.inner.data), session_id)
           [] d.inner.code = "PutWrapKey" ->
                session_message_respond(put_wrap_key(d.state, d.inner.data), session_id)
           [] d.inner.code = "VerifyHmac" ->
                session_message_respond(verify_hmac(d.state, d.inner.data), session_id)
           [] OTHER -> [state |-> d.state, rsp |-> Panic]

session_message(state, frame) ==
    IF State_get_session(state, frame.sid) = None
    THEN [state |-> state, rsp |-> ConnectionError]
    ELSE session_message_dispatch(
             Session_decrypt_command(state, State_get_session(state, frame.sid)[1], frame),
             frame.sid)

\* the simulator as a connector: dispatch on the outer command code
MockHsm_send_command(state, frame) ==
    CASE frame.code = "CreateSession" -> create_session(state, frame)
      [] frame.code = "AuthenticateSession" -> authenticate_session(state, frame)
      [] frame.code = "SessionMessage" -> session_message(state, frame)
      [] OTHER -> [state |-> state, rsp |-> DeviceError("InvalidSession")]

(***************************************************************************)
(* Connector: a byte pipe to the HSM that may fail or corrupt a response   *)
(***************************************************************************)
\* "io_send": the request is not delivered; "io_recv": the response is lost
\* (both surface as a ConnectionError); "tamper": bits of the response's
\* cryptogram or MAC arrive flipped; "garble": the response arrives as bytes
\* that do not parse as a response message
Faults == {"ok", "io_send", "io_recv", "tamper", "garble"}

\* the longest call, reset_device without a session, hands four frames to
\* the connector: CreateSession, AuthenticateSession, ResetDevice and the
\* CloseSession of the dropped session
MaxFrames == 4

\* the fault of each frame of one call: the connector fails at most once
\* in a call
FaultPlans ==
    {[i \in 1 .. MaxFrames |-> "ok"]} \cup
    {[i \in 1 .. MaxFrames |-> IF i = p THEN k ELSE "ok"] :
        p \in 1 .. MaxFrames, k \in Faults \ {"ok"}}

Tamper(rsp) ==
    IF rsp.kind = "Message"
    THEN [rsp EXCEPT !.tag = NoTag, !.cryptogram = NoCryptogram]
    ELSE rsp

\* a device that answers under the session keys with the response to
\* another command
Miscode(rsp) ==
    IF rsp.kind = "Message"
    THEN IF rsp.code = "SessionMessage"
         THEN [rsp EXCEPT !.inner = Inner("BlinkDevice", "-")]
         ELSE rsp
    ELSE rsp

\* a device that answers Echo, under the session keys, with other bytes
\* than it was sent
Misecho(rsp) ==
    IF rsp.kind = "Message"
    THEN IF rsp.code = "SessionMessage"
         THEN IF rsp.inner.code = "Echo"
              THEN [rsp EXCEPT !.inner = Inner("Echo", "other bytes")]
              ELSE rsp
         ELSE rsp
    ELSE rsp

\* one entry of the record of frames handed to the connector: the frame's
\* outer code, session id, inner command with its data and encryption
\* counter, the fault the connector suffered, and the HSM's answer: the code
\* of the response, of an encrypted response the inner code or, when that is
\* a device error, the kind of the error
Sent(frame, fault, rsp) ==
    [code |-> frame.code, sid |-> frame.sid, cmd |-> frame.inner.code,
     data |-> frame.inner.data, ctr |-> frame.ctr, fault |-> fault,
     answer |-> IF fault = "io_send" THEN "-"
                ELSE IF rsp.kind # "Message" THEN rsp.kind
                ELSE IF rsp.code # "SessionMessage" THEN rsp.code
                ELSE IF rsp.inner.code = "DeviceError" THEN rsp.inner.data
                ELSE rsp.inner.code]

\* w = [hsm, frames, faults]: the HSM, the frames sent so far in this call,
\* and the fault of each frame of this call
FaultOf(w) ==
    IF Len(w.frames) + 1 \in DOMAIN w.faults THEN w.faults[Len(w.frames) + 1] ELSE "ok"

\* the connector's answer once the HSM produced `out` (or was not reached)
Connector_respond(w, frame, fault, out) ==
    [w |-> [w EXCEPT !.hsm = out.state,
                     !.frames = Append(@, Sent(frame, fault, out.rsp))],
     rsp |-> CASE fault \in {"io_send", "io_recv"} -> ConnectionError
               [] fault = "tamper" -> Tamper(out.rsp)
               [] fault = "miscode" -> Miscode(out.rsp)
               [] fault = "garble" -> Garbled
               [] fault = "misecho" -> Misecho(out.rsp)
               [] OTHER -> out.rsp]

Connector_send_command(w, frame) ==
    Connector_respond(w, frame, FaultOf(w),
                      IF FaultOf(w) # "io_send" THEN MockHsm_send_command(w.hsm, frame)
                      ELSE [state |-> w.hsm, rsp |-> ConnectionError])

(***************************************************************************)
(* Session (session/mod.rs)                                                *)
(***************************************************************************)
\* struct Session: the connector is the one global connector of the model
Session(id, channel, timestamp, auth_key) ==
    [id |-> id, channel |-> channel, last_command_timestamp |-> timestamp,
     auth_key |-> auth_key]

\* result of a session operation: w = [hsm, frames, faults] after it, the
\* session after it, "Ok" or the kind of the error, and the response
Out(w, s, result, rsp) == [w |-> w, s |-> s, result |-> result, rsp |-> rsp]

\* variant: the skew interval is forgotten
TimedOut_NoSkew(time_since_last_command) ==
    time_since_last_command > SESSION_INACTIVITY_TIMEOUT

\* the inactivity test of send_command
TimedOut(time_since_last_command) ==
    time_since_last_command > (SESSION_INACTIVITY_TIMEOUT - TIMEOUT_SKEW_INTERVAL)

\* variant: the timestamp is set as soon as bytes came back, before they
\* are parsed
Session_parse_response_Eager(r, s, cmd, t) ==
    CASE r.rsp.kind = "ConnectionError" -> Out(r.w, s, "IoError", r.rsp)
      [] r.rsp.kind = "Panic" -> Out(r.w, s, "Panic", r.rsp)
      [] r.rsp.kind = "Garbled" ->
           Out(r.w, [s EXCEPT !.last_command_timestamp = t], "ProtocolError", r.rsp)
      [] r.rsp.code = "DeviceError" ->
           Out(r.w, [s EXCEPT !.last_command_timestamp = t], "ResponseError", r.rsp)
      [] r.rsp.code # cmd.code ->
           Out(r.w, [s EXCEPT !.last_command_timestamp = t], "ProtocolError", r.rsp)
      [] OTHER -> Out(r.w, [s EXCEPT !.last_command_timestamp = t], "Ok", r.rsp)

\* send_command, from the connector's answer r on: parse the response, set
\* the timestamp, check the response code
Session_parse_response(r, s, cmd, t) ==
    CASE r.rsp.kind = "ConnectionError" -> Out(r.w, s, "IoError", r.rsp)
      [] r.rsp.kind = "Panic" -> Out(r.w, s, "Panic", r.rsp)
      [] r.rsp.kind = "Garbled" -> Out(r.w, s, "ProtocolError", r.rsp)
      [] r.rsp.code = "DeviceError" ->
           Out(r.w, [s EXCEPT !.last_command_timestamp = t], "ResponseError", r.rsp)
      [] r.rsp.code # cmd.code ->
           Out(r.w, [s EXCEPT !.last_command_timestamp = t], "ProtocolError", r.rsp)
      [] OTHER -> Out(r.w, [s EXCEPT !.last_command_timestamp = t], "Ok", r.rsp)

\* Session::send_command: send a command message and parse the response
Session_send_command(w, s, cmd, t) ==
    IF TimedOut(t - s.last_command_timestamp)
    THEN Out(w, s, "TimeoutError", ConnectionError)
    ELSE Session_parse_response(Connector_send_command(w, cmd), s, cmd, t)

\* variant: the channel state after the response was verified is not kept
Session_check_response_Stale(d, r, command) ==
    CASE ~d.ok -> Out(r.w, [r.s EXCEPT !.channel = d.ch], "ResponseError", r.rsp)
      [] d.inner.code = "DeviceError" -> Out(r.w, r.s, "ResponseError", r.rsp)
      [] d.inner.code # command.code -> Out(r.w, r.s, "ResponseError", r.rsp)
      [] OTHER -> Out(r.w, r.s, "Ok", r.rsp)

\* variant: a device error in the decrypted response ends the session
Session_check_response_Fatal(d, r, command) ==
    CASE ~d.ok -> Out(r.w, [r.s EXCEPT !.channel = d.ch], "ResponseError", r.rsp)
      [] d.inner.code = "DeviceError" ->
           Out(r.w, [r.s EXCEPT !.channel = Channel_terminate(d.ch)],
               "ResponseError", r.rsp)
      [] d.inner.code # command.code ->
           Out(r.w, [r.s EXCEPT !.channel = d.ch], "ResponseError", r.rsp)
      [] OTHER -> Out(r.w, [r.s EXCEPT !.channel = d.ch], "Ok", r.rsp)

\* send_encrypted_command, once the response was authenticated and
\* decrypted (d): the checks of the decrypted response
Session_check_response(d, r, command) ==
    CASE ~d.ok -> Out(r.w, [r.s EXCEPT !.channel = d.ch], "ResponseError", r.rsp)
      [] d.inner.code = "DeviceError" ->
           Out(r.w, [r.s EXCEPT !.channel = d.ch], "ResponseError", r.rsp)
      [] d.inner.code # command.code ->
           Out(r.w, [r.s EXCEPT !.channel = d.ch], "ResponseError", r.rsp)
      [] OTHER -> Out(r.w, [r.s EXCEPT !.channel = d.ch], "Ok", r.rsp)

\* variant: the decrypted response is used without verifying its MAC
Session_decrypt_response_Unverified(r, command) ==
    IF r.result # "Ok" THEN r
    ELSE Session_check_response(
             [ok |-> TRUE,
              ch |-> [r.s.channel EXCEPT !.mac_chaining_value = @ + 1],
              inner |-> r.rsp.inner], r, command)

\* send_encrypted_command, once send_command returned (r)
Session_decrypt_response(r, command) ==
    IF r.result # "Ok" THEN r
    ELSE Session_check_response(Channel_decrypt_response(r.s.channel, r.rsp), r, command)

\* variant: the channel as it was before the command was encrypted is kept
Session_send_encrypted_Stale(e, w, s, command, t) ==
    IF ~e.ok THEN Out(w, s, "ProtocolError", ConnectionError)
    ELSE Session_decrypt_response(Session_send_command(w, s, e.frame, t), command)

\* send_encrypted_command, once the command was encrypted (e)
Session_send_encrypted(e, w, s, command, t) ==
    IF ~e.ok THEN Out(w, s, "ProtocolError", ConnectionError)
    ELSE Session_decrypt_response(
             Session_send_command(w, [s EXCEPT !.channel = e.ch], e.frame, t), command)

\* Session::send_encrypted_command: encrypt, send, authenticate and decrypt
Session_send_encrypted_command(w, s, command, t) ==
    Session_send_encrypted(Channel_encrypt_command(s.channel, command), w, s, command, t)

\* variant: a CloseSession that failed is attempted a second time
Session_drop_Retry(w, s, t) ==
    LET r == Session_send_encrypted_command(w, s, Inner("CloseSession", "-"), t)
    IN  IF r.result = "Ok" THEN r.w
        ELSE Session_send_encrypted_command(r.w, r.s, Inner("CloseSession", "-"), t).w

\* Drop for Session: a best-effort CloseSession whose failure is swallowed
Session_drop(w, s, t) ==
    Session_send_encrypted_command(w, s, Inner("CloseSession", "-"), t).w

\* variant: the response to AuthenticateSession is accepted unverified
Session_finish_authenticate_Unverified(r) ==
    IF r.result # "Ok" THEN r
    ELSE Out(r.w,
             [r.s EXCEPT !.channel = [@ EXCEPT !.security_level = "Authenticated",
                                               !.mac_chaining_value = @ + 1]],
             "Ok", r.rsp)

\* authenticate, once send_command returned (r)
Session_finish_authenticate(r) ==
    IF r.result # "Ok" THEN r
    ELSE LET f == Channel_finish_authenticate_session(r.s.channel, r.rsp)
         IN  Out(r.w, [r.s EXCEPT !.channel = f.ch],
                 IF f.ok THEN "Ok" ELSE "ResponseError", r.rsp)

\* authenticate, once the AuthenticateSession command was built (a)
Session_authenticate_send(a, w, s, t) ==
    Session_finish_authenticate(
        Session_send_command(w, [s EXCEPT !.channel = a.ch], a.frame, t))

\* Session::authenticate
Session_authenticate(w, s, t) ==
    Session_authenticate_send(Channel_authenticate_session(s.channel), w, s, t)

\* commands::create_session, from the connector's answer r on
Session_create_parse(r) ==
    [w |-> r.w, rsp |-> r.rsp,
     result |-> CASE r.rsp.kind = "ConnectionError" -> "IoError"
                  [] r.rsp.kind = "Panic" -> "Panic"
                  [] r.rsp.kind = "Garbled" -> "ProtocolError"
                  [] r.rsp.code = "DeviceError" -> "ResponseError"
                  [] r.rsp.code # "CreateSession" -> "ProtocolError"
                  [] OTHER -> "Ok"]

\* commands::create_session: the CreateSession exchange of Session::new
Session_create_session(w, auth_key_id) ==
    Session_create_parse(
        Connector_send_command(w, Frame("CreateSession", -1,
                                        Inner("CreateSession", auth_key_id),
                                        NoCryptogram, 0, NoTag)))

\* variant: the card cryptogram is not compared
CardCryptogramMatches_Always(channel, session_response) == TRUE

\* the comparison of the card cryptograms in Session::new
CardCryptogramMatches(channel, session_response) ==
    Channel_card_cryptogram(channel) = session_response.cryptogram

\* Session::new, once authenticate returned (a): a failed session is dropped
Session_new_finish(a, t) ==
    IF a.result # "Ok"
    THEN [w |-> Session_drop(a.w, a.s, t), session |-> None, result |-> a.result]
    ELSE [w |-> a.w, session |-> Some(a.s), result |-> "Ok"]

\* Session::new, once create_session returned (c)
Session_new_verify(c, auth_key, reconnect, t) ==
    IF c.result # "Ok" THEN [w |-> c.w, session |-> None, result |-> c.result]
    ELSE IF ~CardCryptogramMatches(Channel_new(c.rsp.sid, auth_key), c.rsp)
    THEN [w |-> c.w, session |-> None, result |-> "AuthFailed"]
    ELSE Session_new_finish(
             Session_authenticate(c.w,
                 Session(c.rsp.sid, Channel_new(c.rsp.sid, auth_key), t,
                         IF reconnect THEN Some(auth_key) ELSE None), t), t)

\* Session::new: the result carries Some(session) exactly when it is "Ok"
Session_new(w, auth_key_id, auth_key, reconnect, t) ==
    Session_new_verify(Session_create_session(w, auth_key_id), auth_key, reconnect, t)

CONNECTOR_STATUS_OK == "OK"

\* the connector's answer to a status request, or its failure
Status(ok, message) == [ok |-> ok, message |-> message]

\* variant: the status of the connector is not looked at
Session_create_Unchecked(w, status, auth_key_id, auth_key, reconnect, t) ==
    Session_new(w, auth_key_id, auth_key, reconnect, t)

\* Session::create: open a connector, ask for its status and open a session
Session_create(w, status, auth_key_id, auth_key, reconnect, t) ==
    IF ~status.ok THEN [w |-> w, session |-> None, result |-> "IoError"]
    ELSE IF status.message # CONNECTOR_STATUS_OK
    THEN [w |-> w, session |-> None, result |-> "CreateFailed"]
    ELSE Session_new(w, auth_key_id, auth_key, reconnect, t)

\* Session::is_open
Session_is_open(s) == s.channel.security_level = "Authenticated"

(***************************************************************************)
(* Client (client/mod.rs)                                                  *)
(***************************************************************************)
Credentials(id, key) == [authentication_key_id |-> id, key |-> key]

\* struct Client
Client(session, credentials) == [session |-> session, credentials |-> credentials]

\* result of a client call
Ret(w, c, result) == [w |-> w, c |-> c, result |-> result]

ReconnectDisabled == "AuthFail: session reconnection disabled"

Client_is_connected(c) ==
    IF c.session = None THEN FALSE ELSE Session_is_open(c.session[1])

\* Client::session, once the new session was opened (n): it replaces the
\* old one, which is dropped
Client_session_store(n, c, t) ==
    IF n.result # "Ok" THEN Ret(n.w, c, n.result)
    ELSE Ret(IF c.session = None THEN n.w ELSE Session_drop(n.w, c.session[1], t),
             [c EXCEPT !.session = n.session], "Ok")

\* variant: a new session is opened whether or not one is open
Client_session_Reopen(w, c, t) ==
    IF c.credentials = None THEN Ret(w, c, ReconnectDisabled)
    ELSE Client_session_store(
             Session_new(w, c.credentials[1].authentication_key_id,
                         c.credentials[1].key, TRUE, t), c, t)

\* Client::session: the open session, or a newly opened one
Client_session(w, c, t) ==
    IF Client_is_connected(c) THEN Ret(w, c, "Ok")
    ELSE IF c.credentials = None THEN Ret(w, c, ReconnectDisabled)
    ELSE Client_session_store(
             Session_new(w, c.credentials[1].authentication_key_id,
                         c.credentials[1].key, TRUE, t), c, t)

\* Client::connect
Client_connect(w, c, t) == Client_session(w, c, t)

\* Client::session_id
Client_session_id(c) == IF c.session = None THEN None ELSE Some(c.session[1].id)

\* Client::send_command, once the session's send_command returned (r):
\* `value` is the deserialized response when the result is "Ok"
Client_send_result(r, c) ==
    [w |-> r.w, c |-> [c EXCEPT !.session = Some(r.s)], result |-> r.result,
     value |-> r.rsp.inner.data]

\* variant: a command that failed in the connector is sent a second time
Client_resend(r, c, command, t) ==
    IF r.result = "IoError"
    THEN Client_send_result(Session_send_encrypted_command(r.w, r.s, command, t), c)
    ELSE Client_send_result(r, c)

Client_send_on_Retry(g, command, t) ==
    IF g.result # "Ok" THEN g
    ELSE Client_resend(
             Session_send_encrypted_command(g.w, g.c.session[1], command, t),
             g.c, command, t)

\* Client::send_command, once session() returned (g)
Client_send_on(g, command, t) ==
    IF g.result # "Ok" THEN g
    ELSE Client_send_result(
             Session_send_encrypted_command(g.w, g.c.session[1], command, t), g.c)

\* Client::send_command
Client_send_command(w, c, command, t) ==
    Client_send_on(Client_session(w, c, t), command, t)

\* Client::delete_object
Client_delete_object(w, c, object_id, object_type, t) ==
    Client_send_command(w, c,
        Inner("DeleteObject", ObjectParams(object_id, object_type, "-")), t)

\* Client::echo
Client_echo(w, c, msg, t) == Client_send_command(w, c, Inner("Echo", msg), t)

\* variant: the echoed bytes are not compared with the bytes sent
Client_ping_Unchecked(r, uuid) ==
    IF r.result # "Ok" THEN r ELSE [r EXCEPT !.value = 0]

\* Client::ping, once echo returned (r): the echoed bytes must be the
\* UUID that was sent; the value is the latency
Client_ping_check(r, uuid) ==
    IF r.result # "Ok" THEN r
    ELSE IF uuid # r.value THEN [r EXCEPT !.result = "ResponseError"]
    ELSE [r EXCEPT !.value = 0]

\* Client::ping: an Echo of a random UUID
Client_ping(w, c, uuid, t) == Client_ping_check(Client_echo(w, c, uuid, t), uuid)

\* Client::set_audit_option
Client_set_audit_option(w, c, command, audit_option, t) ==
    Client_send_command(w, c,
        Inner("SetOption", OptionParams("Command", command, audit_option)), t)

\* Client::put_force_audit_option
Client_put_force_audit_option(w, c, option, t) ==
    Client_send_command(w, c, Inner("SetOption", OptionParams("Force", "-", option)), t)

\* Client::get_commands_audit_options
Client_get_commands_audit_options(w, c, t) ==
    Client_send_command(w, c, Inner("GetOption", GetOptionParams("Command")), t)

\* Client::get_command_audit_option, once the options of all commands were
\* read (r): the option of the entry of `command`, Off when there is none
Client_find_audit_option(r, command) ==
    IF r.result # "Ok" THEN r
    ELSE [r EXCEPT !.value =
              IF \E entry \in r.value : entry[1] = command
              THEN (CHOOSE entry \in r.value : entry[1] = command)[2]
              ELSE "Off"]

\* Client::get_command_audit_option
Client_get_command_audit_option(w, c, command, t) ==
    Client_find_audit_option(Client_get_commands_audit_options(w, c, t), command)

\* Client::get_force_audit_option, once the response arrived (r): it must be
\* one byte that is an audit option
Client_parse_force_audit_option(r) ==
    IF r.result # "Ok" THEN r
    ELSE IF Len(r.value) # 1 THEN [r EXCEPT !.result = "ProtocolError"]
    ELSE IF AuditOption_from_u8(r.value[1]) = None
    THEN [r EXCEPT !.result = "ProtocolError"]
    ELSE [r EXCEPT !.value = AuditOption_from_u8(r.value[1])[1]]

\* Client::get_force_audit_option
Client_get_force_audit_option(w, c, t) ==
    Client_parse_force_audit_option(
        Client_send_command(w, c, Inner("GetOption", GetOptionParams("Force")), t))

\* the bytes of a key: which key it is and how many bytes it has
Key(name, len) == [name |-> name, len |-> len]

MAX_RAND_BYTES == 2048

HMAC_MIN_KEY_SIZE == 1

RSA_PSS_MAX_MESSAGE_SIZE == 65535

\* a 16-bit length on the wire: `as u16`
U16(n) == n % 65536

\* AsymmetricAlg::key_len
AsymmetricAlg_key_len(algorithm) ==
    CASE algorithm = "EC_ED25519" -> 32

\* WrapAlg::key_len
WrapAlg_key_len(algorithm) ==
    CASE algorithm = "AES128_CCM_WRAP" -> 16

\* OtpAlg::key_len
OtpAlg_key_len(algorithm) ==
    CASE algorithm = "YUBICO_OTP_AES128" -> 16

\* HmacAlg::max_key_len: the block size of the hash
HmacAlg_max_key_len(algorithm) ==
    CASE algorithm = "HMAC_SHA256" -> 64

\* variant: the length of the random bytes asked for is not checked
Client_get_pseudo_random_Unchecked(w, c, bytes, t) ==
    Client_send_command(w, c, Inner("GetPseudoRandom", U16(bytes)), t)

\* Client::get_pseudo_random: the value of the result is the bytes
\* returned, modelled by their number
Client_get_pseudo_random(w, c, bytes, t) ==
    IF ~(bytes <= MAX_RAND_BYTES) THEN Ret(w, c, "ProtocolError")
    ELSE Client_send_command(w, c, Inner("GetPseudoRandom", U16(bytes)), t)

\* Client::import_wrapped
Client_import_wrapped(w, c, wrap_key_id, wrap_message, t) ==
    Client_send_command(w, c,
        Inner("ImportWrapped", ImportParams(wrap_key_id, wrap_message)), t)

\* variant: the length of the key is not checked
Client_put_asymmetric_key_Unchecked(w, c, key_id, algorithm, data, t) ==
    Client_send_command(w, c,
        Inner("PutAsymmetricKey", ObjectParams(key_id, "AsymmetricKey", data)), t)

\* Client::put_asymmetric_key
Client_put_asymmetric_key(w, c, key_id, algorithm, data, t) ==
    IF data.len # AsymmetricAlg_key_len(algorithm) THEN Ret(w, c, "ProtocolError")
    ELSE Client_send_command(w, c,
             Inner("PutAsymmetricKey", ObjectParams(key_id, "AsymmetricKey", data)), t)

\* variant: keys longer than the algorithm allows are sent
Client_put_hmac_key_NoMax(w, c, key_id, algorithm, data, t) ==
    IF data.len < HMAC_MIN_KEY_SIZE THEN Ret(w, c, "ProtocolError")
    ELSE Client_send_command(w, c,
             Inner("PutHmacKey", ObjectParams(key_id, "HmacKey", data)), t)

\* Client::put_hmac_key
Client_put_hmac_key(w, c, key_id, algorithm, data, t) ==
    IF data.len < HMAC_MIN_KEY_SIZE THEN Ret(w, c, "ProtocolError")
    ELSE IF data.len > HmacAlg_max_key_len(algorithm) THEN Ret(w, c, "ProtocolError")
    ELSE Client_send_command(w, c,
             Inner("PutHmacKey", ObjectParams(key_id, "HmacKey", data)), t)

\* Client::put_otp_aead_key
Client_put_otp_aead_key(w, c, key_id, algorithm, data, t) ==
    IF data.len # OtpAlg_key_len(algorithm) THEN Ret(w, c, "ProtocolError")
    ELSE Client_send_command(w, c,
             Inner("PutOtpAeadKey", ObjectParams(key_id, "OtpAeadKey", data)), t)

\* Client::put_wrap_key
Client_put_wrap_key(w, c, key_id, delegated_capabilities, algorithm, data, t) ==
    IF data.len # WrapAlg_key_len(algorithm) THEN Ret(w, c, "ProtocolError")
    ELSE Client_send_command(w, c,
             Inner("PutWrapKey",
                   ObjectParams(key_id, "WrapKey",
                                WrapKey(data, delegated_capabilities))), t)

\* the SHA-256 digest of the 16-bit length of the message followed by the
\* message; the message is modelled by its length
PssDigest(data) == <<"sha256", U16(data), data>>

\* the data of a SignPss command: the key, the salt length (the length of
\* the digest) and the digest
SignPssParams(key_id, digest) ==
    [ok |-> TRUE, key_id |-> key_id, salt_len |-> HMAC_TAG_LEN, digest |-> digest]

\* Client::sign_rsa_pss_sha256: ensure! fails unless the message is longer
\* than the maximum
Client_sign_rsa_pss_sha256(w, c, key_id, data, t) ==
    IF ~(data > RSA_PSS_MAX_MESSAGE_SIZE) THEN Ret(w, c, "ProtocolError")
    ELSE Client_send_command(w, c,
             Inner("SignPss", SignPssParams(key_id, PssDigest(data))), t)

\* Client::verify_hmac, once send_command returned (r)
Client_verify_hmac_result(r) ==
    IF r.result # "Ok" THEN r
    ELSE IF r.value = 1 THEN r
    ELSE [r EXCEPT !.result = "ResponseError"]

\* Client::verify_hmac
Client_verify_hmac(w, c, key_id, msg, tag, t) ==
    Client_verify_hmac_result(
        Client_send_command(w, c, Inner("VerifyHmac", VerifyParams(key_id, tag, msg)), t))

\* variant: the credentials are discarded together with the session
Client_invalidate_session_Forget(r, t) ==
    Ret(IF r.c.session = None THEN r.w ELSE Session_drop(r.w, r.c.session[1], t),
        [r.c EXCEPT !.session = None, !.credentials = None], "Ok")

\* variant: the error of the ResetDevice command is returned and the session
\* is kept
Client_invalidate_session_OnSuccess(r, t) ==
    IF r.result # "Ok" THEN r
    ELSE Ret(IF r.c.session = None THEN r.w ELSE Session_drop(r.w, r.c.session[1], t),
             [r.c EXCEPT !.session = None], "Ok")

\* Client::reset_device, once the ResetDevice command returned (r): the
\* error is ignored and the session is discarded (and so dropped)
Client_invalidate_session(r, t) ==
    Ret(IF r.c.session = None THEN r.w ELSE Session_drop(r.w, r.c.session[1], t),
        [r.c EXCEPT !.session = None], "Ok")

\* Client::reset_device
Client_reset_device(w, c, t) ==
    Client_invalidate_session(Client_send_command(w, c, Inner("ResetDevice", "-"), t), t)

\* variant: the credentials are kept whatever `reconnect` says
Client_open_finish_Keep(r, reconnect) ==
    IF r.result # "Ok" THEN [w |-> r.w, client |-> None, result |-> r.result]
    ELSE [w |-> r.w, client |-> Some(r.c), result |-> "Ok"]

\* Client::open, once connect returned (r)
Client_open_finish(r, reconnect) ==
    IF r.result # "Ok" THEN [w |-> r.w, client |-> None, result |-> r.result]
    ELSE [w |-> r.w,
          client |-> Some(IF reconnect THEN r.c ELSE [r.c EXCEPT !.credentials = None]),
          result |-> "Ok"]

\* Client::open: None when connecting failed
Client_open(w, credentials, reconnect, t) ==
    Client_open_finish(Client_connect(w, Client(None, Some(credentials)), t), reconnect)

(***************************************************************************)
(* The state machine                                                       *)
(***************************************************************************)
\* `client`: Option<Client>, None before Client::open succeeded and after the
\*           client was dropped
\* `hsm`:    the simulator's State
\* `now`:    the wall clock, in seconds
\* `last`:   the last client call: its name, its arguments, its result, the
\*           frames it handed to the connector, and the client as it was
\*           before the call; a wait clears it
Messages == {"hello"}

\* waits the model takes: exactly the client's inactivity threshold, and the
\* HSM's inactivity timeout
TickSteps ==
    {SESSION_INACTIVITY_TIMEOUT - TIMEOUT_SKEW_INTERVAL, SESSION_INACTIVITY_TIMEOUT}

Call(op, arg, result, frames, pre) ==
    [op |-> op, arg |-> arg, result |-> result, frames |-> frames, pre |-> pre]

\* the arguments of a call: the key and the reconnect flag of Client::open
Args(key, reconnect) == [key |-> key, reconnect |-> reconnect]

NoArgs == Args("-", FALSE)

World(faults) == [hsm |-> hsm, frames |-> <<>>, faults |-> faults]

\* calls are started only while the encryption counter is below MaxCounter
CounterOk ==
    IF client = None THEN TRUE
    ELSE IF client[1].session = None THEN TRUE
    ELSE client[1].session[1].channel.counter < MaxCounter

Init ==
    /\ client = None
    /\ hsm = State_new
    /\ now = 0
    /\ last = Call("init", NoArgs, "Ok", <<>>, None)

Tick ==
    \E d \in TickSteps :
        /\ now + d <= MaxNow
        /\ now' = now + d
        /\ last' = Call("tick", NoArgs, "Ok", <<>>, None)
        /\ UNCHANGED <<client, hsm>>

Open ==
    \E key \in AuthKeys, reconnect \in BOOLEAN, faults \in FaultPlans :
        /\ client = None
        /\ \E r \in {Client_open(World(faults),
                                 Credentials(DEFAULT_AUTH_KEY_ID, key), reconnect, now)} :
               /\ client' = r.client
               /\ hsm' = r.w.hsm
               /\ last' = Call("open", Args(key, reconnect), r.result, r.w.frames, client)
        /\ UNCHANGED now

Connect ==
    \E faults \in FaultPlans :
        /\ client # None
        /\ CounterOk
        /\ \E r \in {Client_connect(World(faults), client[1], now)} :
               /\ client' = Some(r.c)
               /\ hsm' = r.w.hsm
               /\ last' = Call("connect", NoArgs, r.result, r.w.frames, client)
        /\ UNCHANGED now

Echo ==
    \E msg \in Messages, faults \in FaultPlans :
        /\ client # None
        /\ CounterOk
        /\ \E r \in {Client_echo(World(faults), client[1], msg, now)} :
               /\ client' = Some(r.c)
               /\ hsm' = r.w.hsm
               /\ last' = Call("echo", NoArgs, r.result, r.w.frames, client)
        /\ UNCHANGED now

\* the client deletes opaque objects only: what the simulator does when its
\* authentication key is gone is outside this model. No client call creates
\* an object, so one object id stands for all of them
DeleteObject ==
    \E object_id \in {MaxObjectId}, faults \in FaultPlans :
        /\ client # None
        /\ CounterOk
        /\ \E r \in {Client_delete_object(World(faults), client[1], object_id, "Opaque", now)} :
               /\ client' = Some(r.c)
               /\ hsm' = r.w.hsm
               /\ last' = Call("delete_object", NoArgs, r.result, r.w.frames, client)
        /\ UNCHANGED now

ResetDevice ==
    \E faults \in FaultPlans :
        /\ client # None
        /\ CounterOk
        /\ \E r \in {Client_reset_device(World(faults), client[1], now)} :
               /\ client' = Some(r.c)
               /\ hsm' = r.w.hsm
               /\ last' = Call("reset_device", NoArgs, r.result, r.w.frames, client)
        /\ UNCHANGED now

\* the client goes out of scope: its session, if any, is dropped
DropClient ==
    \E faults \in FaultPlans :
        /\ client # None
        /\ \E w \in {IF client[1].session = None THEN World(faults)
                     ELSE Session_drop(World(faults), client[1].session[1], now)} :
               /\ client' = None
               /\ hsm' = w.hsm
               /\ last' = Call("drop", NoArgs, "Ok", w.frames, client)
        /\ UNCHANGED now

Next == Tick \/ Open \/ Connect \/ Echo \/ DeleteObject \/ ResetDevice \/ DropClient

Spec == Init /\ [][Next]_vars

(***************************************************************************)
(* The simulator alone: frames arrive on the wire from any peer            *)
(***************************************************************************)
\* `last` under SimSpec: the frame handed to the simulator, its answer, and
\* the simulator's state before it
Wire(frame, rsp, pre) == [op |-> "wire", frame |-> frame, rsp |-> rsp, pre |-> pre]

NoFrame == Frame("-", -1, NoInner, NoCryptogram, 0, NoTag)

\* a handler that panics takes the whole simulator down
Crashed == last.rsp.kind = "Panic"

\* the AuthenticateSession frame of a host that holds the session's keys
\* (valid) or does not (its MAC does not verify)
AuthenticateFrame(sid, valid) ==
    Frame("AuthenticateSession", sid, NoInner,
          Channel_host_cryptogram(hsm.sessions[sid][1]), 0,
          IF valid THEN Tag(hsm.sessions[sid][1].key, 0) ELSE NoTag)

\* the SessionMessage frame a host in step with the session sends for the
\* command `inner`, or the same frame with a MAC that does not verify
MessageFrame(sid, inner, valid) ==
    Frame("SessionMessage", sid, inner, NoCryptogram,
          hsm.sessions[sid][1].counter,
          IF valid THEN Tag(hsm.sessions[sid][1].key,
                            hsm.sessions[sid][1].mac_chaining_value)
          ELSE NoTag)

\* the simulator answers one frame
Deliver(frame) ==
    /\ ~Crashed
    /\ \E r \in {MockHsm_send_command(hsm, frame)} :
           /\ hsm' = r.state
           /\ last' = Wire(frame, r.rsp, hsm)
    /\ UNCHANGED <<client, now>>

\* the session exists and its counter is below the bound of the model
Usable(sid) ==
    IF hsm.sessions[sid] = None THEN FALSE
    ELSE hsm.sessions[sid][1].counter < MaxCounter

SimInit ==
    /\ client = None
    /\ hsm = State_new
    /\ now = 0
    /\ last = Wire(NoFrame, DeviceError("-"), State_new)

WireCreateSession ==
    Deliver(Frame("CreateSession", -1, Inner("CreateSession", DEFAULT_AUTH_KEY_ID),
                  NoCryptogram, 0, NoTag))

WireAuthenticateSession ==
    \E sid \in SessionIds, valid \in BOOLEAN :
        /\ hsm.sessions[sid] # None
        /\ Deliver(AuthenticateFrame(sid, valid))

\* a frame that carries a session id and an opcode other than SessionMessage
WireOtherOpcode ==
    \E sid \in SessionIds :
        /\ hsm.sessions[sid] # None
        /\ Deliver(Frame("Echo", sid, Inner("Echo", "hello"), NoCryptogram, 0, NoTag))

\* commands other than CloseSession and ResetDevice arrive over the session
\* with the lowest id
Operator(sid) == Usable(sid) /\ \A other \in SessionIds : sid <= other

\* a SessionMessage whose MAC does not verify
WireForgedMessage ==
    \E sid \in SessionIds :
        /\ Usable(sid)
        /\ Deliver(MessageFrame(sid, Inner("Echo", "hello"), FALSE))

WireEcho ==
    \E sid \in SessionIds :
        /\ Operator(sid)
        /\ Deliver(MessageFrame(sid, Inner("Echo", "hello"), TRUE))

\* commands that create objects: the requested id 0 lets the simulator
\* choose; keys are put under the id of the default authentication key
CreateObjectCommands ==
    {Inner("GenerateAsymmetricKey", ObjectParams(id, "-", "-")) : id \in 0 .. MaxObjectId}
    \cup {Inner("PutOpaqueObject", ObjectParams(0, "-", "a"))}
    \cup {Inner(code, ObjectParams(DEFAULT_AUTH_KEY_ID, "-", "a")) :
              code \in {"PutAsymmetricKey", "PutAuthenticationKey"}}
    \cup {Inner(code, Malformed) :
              code \in {"GenerateAsymmetricKey", "PutAsymmetricKey",
                        "PutAuthenticationKey", "PutOpaqueObject"}}

WireCreateObject ==
    \E sid \in SessionIds, inner \in CreateObjectCommands :
        /\ Operator(sid)
        /\ Deliver(MessageFrame(sid, inner, TRUE))

WireDeleteObject ==
    \E sid \in SessionIds,
       data \in {ObjectParams(id, "Opaque", "-") : id \in ObjectIds} \cup {Malformed} :
        /\ Operator(sid)
        /\ Deliver(MessageFrame(sid, Inner("DeleteObject", data), TRUE))

WireSetOption ==
    \E sid \in SessionIds,
       data \in {OptionParams("Force", "-", "On"), OptionParams("Force", "-", "invalid")} :
        /\ Operator(sid)
        /\ Deliver(MessageFrame(sid, Inner("SetOption", data), TRUE))

WireCloseSession ==
    \E sid \in SessionIds :
        /\ Usable(sid)
        /\ Deliver(MessageFrame(sid, Inner("CloseSession", "-"), TRUE))

WireResetDevice ==
    \E sid \in SessionIds :
        /\ Usable(sid)
        /\ Deliver(MessageFrame(sid, Inner("ResetDevice", "-"), TRUE))

\* a SessionMessage of a host whose session was closed or never existed: a
\* command that would store an object, under the id of no session
WireClosedSession ==
    \E sid \in SessionIds :
        /\ hsm.sessions[sid] = None
        /\ Deliver(Frame("SessionMessage", sid,
                         Inner("PutOpaqueObject", ObjectParams(0, "-", "a")),
                         NoCryptogram, 1, Tag(DefaultAuthKey, 2)))

SimNext ==
    \/ WireCreateSession
    \/ WireAuthenticateSession
    \/ WireOtherOpcode
    \/ WireForgedMessage
    \/ WireEcho
    \/ WireCreateObject
    \/ WireDeleteObject
    \/ WireSetOption
    \/ WireCloseSession
    \/ WireResetDevice
    \/ WireClosedSession

SimSpec == SimInit /\ [][SimNext]_vars

(***************************************************************************)
(* The client's calls that validate their arguments (client/mod.rs)        *)
(***************************************************************************)
\* `client`: the Client as Client::create leaves it, then as the calls
\*           leave it
\* `hsm`:    the simulator's State
\* `now`:    the wall clock, which does not advance
\* `last`:   the last call: its name, its arguments, its result and the
\*           value returned with "Ok", the frames it handed to the
\*           connector, and the client and the HSM as they were before it
Called(op, arg, result, value, frames, pre) ==
    [op |-> op, arg |-> arg, result |-> result, value |-> value, frames |-> frames,
     pre |-> pre]

\* the device answers every command as it should, or answers every session
\* message with the response to another command, or answers every Echo with
\* other bytes
CallFaultPlans ==
    {[i \in 1 .. MaxFrames |-> "ok"], [i \in 1 .. MaxFrames |-> "miscode"],
     [i \in 1 .. MaxFrames |-> "misecho"]}

\* every object of these calls is stored under one id
KeyId == MaxObjectId

HmacKeys == {Key("hmac", HMAC_MIN_KEY_SIZE), Key("hmac", HmacAlg_max_key_len("HMAC_SHA256"))}

\* a byte of a message that no HMAC produced
Lit(n) == <<Key("-", 0), <<>>, n>>

HmacMessages == {<<>>, <<Lit(1)>>}

\* a tag with one byte changed
FlipByte(tag, i) == [tag EXCEPT ![i] = <<@[1], @[2], 0>>]

\* the message and tag of a call of verify_hmac
HmacInput(msg, tag) == [msg |-> msg, tag |-> tag]

\* the inputs of verify_hmac: each message with its HMAC under each key,
\* whole, with its first or its last byte changed, and cut short by one
\* byte; and the message that starts with the last byte of the HMAC of the
\* rest of it, with that HMAC cut short by that byte
HmacInputs ==
    UNION {{HmacInput(m, Hmac(k, m)),
            HmacInput(m, FlipByte(Hmac(k, m), 1)),
            HmacInput(m, FlipByte(Hmac(k, m), HMAC_TAG_LEN)),
            HmacInput(m, SubSeq(Hmac(k, m), 1, HMAC_TAG_LEN - 1)),
            HmacInput(<<Hmac(k, m)[HMAC_TAG_LEN]>> \o m,
                      SubSeq(Hmac(k, m), 1, HMAC_TAG_LEN - 1))} :
               k \in HmacKeys, m \in HmacMessages}

WrapKeys == {Key("wrap", WrapAlg_key_len("AES128_CCM_WRAP")),
             Key("other", WrapAlg_key_len("AES128_CCM_WRAP"))}

\* the process is gone once the simulator panicked under it
CallCrashed == last.result = "Panic"

CallInit ==
    /\ client = Some(Client(None, Some(Credentials(DEFAULT_AUTH_KEY_ID, DefaultAuthKey))))
    /\ hsm = State_new
    /\ now = 0
    /\ last = Called("create", NoArgs, "Ok", "-", <<>>, [client |-> None, hsm |-> State_new])

\* the effect of a call that returned r
CallReturns(op, arg, r) ==
    /\ client' = Some(r.c)
    /\ hsm' = r.w.hsm
    /\ last' = Called(op, arg, r.result, IF r.result = "Ok" THEN r.value ELSE "-",
                      r.w.frames, [client |-> client, hsm |-> hsm])
    /\ UNCHANGED now

CallEnabled == client # None /\ CounterOk /\ ~CallCrashed

CallGetPseudoRandom ==
    \E bytes \in {0, 1, MAX_RAND_BYTES, MAX_RAND_BYTES + 1, 65536 + 1},
       faults \in CallFaultPlans :
        /\ CallEnabled
        /\ \E r \in {Client_get_pseudo_random(World(faults), client[1], bytes, now)} :
               CallReturns("get_pseudo_random", [bytes |-> bytes], r)

CallImportWrapped ==
    \E key \in WrapKeys, capabilities \in SUBSET Capabilities, faults \in CallFaultPlans :
        /\ CallEnabled
        /\ \E r \in {Client_import_wrapped(World(faults), client[1], KeyId,
                         Wrapped(key, KeyId, "Opaque", capabilities, "imported"), now)} :
               CallReturns("import_wrapped",
                           [key |-> key, capabilities |-> capabilities], r)

CallPutAsymmetricKey ==
    \E d \in {-1, 0, 1}, faults \in CallFaultPlans :
        /\ CallEnabled
        /\ \E r \in {Client_put_asymmetric_key(World(faults), client[1], KeyId,
                         "EC_ED25519",
                         Key("asymmetric", AsymmetricAlg_key_len("EC_ED25519") + d), now)} :
               CallReturns("put_asymmetric_key",
                           [len |-> AsymmetricAlg_key_len("EC_ED25519") + d,
                            key_len |-> AsymmetricAlg_key_len("EC_ED25519")], r)

CallPutHmacKey ==
    \E len \in {0, HMAC_MIN_KEY_SIZE, HmacAlg_max_key_len("HMAC_SHA256"),
                HmacAlg_max_key_len("HMAC_SHA256") + 1},
       faults \in CallFaultPlans :
        /\ CallEnabled
        /\ \E r \in {Client_put_hmac_key(World(faults), client[1], KeyId, "HMAC_SHA256",
                                         Key("hmac", len), now)} :
               CallReturns("put_hmac_key",
                           [len |-> len,
                            max_key_len |-> HmacAlg_max_key_len("HMAC_SHA256")], r)

CallPutOtpAeadKey ==
    \E d \in {-1, 0, 1}, faults \in CallFaultPlans :
        /\ CallEnabled
        /\ \E r \in {Client_put_otp_aead_key(World(faults), client[1], KeyId,
                         "YUBICO_OTP_AES128",
                         Key("otp", OtpAlg_key_len("YUBICO_OTP_AES128") + d), now)} :
               CallReturns("put_otp_aead_key",
                           [len |-> OtpAlg_key_len("YUBICO_OTP_AES128") + d,
                            key_len |-> OtpAlg_key_len("YUBICO_OTP_AES128")], r)

CallPutWrapKey ==
    \E d \in {-1, 0, 1}, delegated_capabilities \in SUBSET Capabilities,
       faults \in CallFaultPlans :
        /\ CallEnabled
        /\ \E r \in {Client_put_wrap_key(World(faults), client[1], KeyId,
                         delegated_capabilities, "AES128_CCM_WRAP",
                         Key("wrap", WrapAlg_key_len("AES128_CCM_WRAP") + d), now)} :
               CallReturns("put_wrap_key",
                           [len |-> WrapAlg_key_len("AES128_CCM_WRAP") + d,
                            key_len |-> WrapAlg_key_len("AES128_CCM_WRAP")], r)

CallSignRsaPss ==
    \E data \in {0, RSA_PSS_MAX_MESSAGE_SIZE, RSA_PSS_MAX_MESSAGE_SIZE + 1},
       faults \in CallFaultPlans :
        /\ CallEnabled
        /\ \E r \in {Client_sign_rsa_pss_sha256(World(faults), client[1], KeyId, data, now)} :
               CallReturns("sign_rsa_pss_sha256", [len |-> data], r)

CallVerifyHmac ==
    \E input \in HmacInputs, faults \in CallFaultPlans :
        /\ CallEnabled
        /\ \E r \in {Client_verify_hmac(World(faults), client[1], KeyId, input.msg,
                                        input.tag, now)} :
               CallReturns("verify_hmac", input, r)

CallConnect ==
    \E faults \in CallFaultPlans :
        /\ CallEnabled
        /\ \E r \in {Client_connect(World(faults), client[1], now)} :
               /\ client' = Some(r.c)
               /\ hsm' = r.w.hsm
               /\ last' = Called("connect", NoArgs, r.result, "-", r.w.frames,
                                 [client |-> client, hsm |-> hsm])
        /\ UNCHANGED now

\* the UUIDs ping draws from
Uuids == {"uuid-1", "uuid-2"}

CallEcho ==
    \E msg \in Messages, faults \in CallFaultPlans :
        /\ CallEnabled
        /\ \E r \in {Client_echo(World(faults), client[1], msg, now)} :
               CallReturns("echo", msg, r)

CallPing ==
    \E uuid \in Uuids, faults \in CallFaultPlans :
        /\ CallEnabled
        /\ \E r \in {Client_ping(World(faults), client[1], uuid, now)} :
               CallReturns("ping", uuid, r)

\* the commands whose audit option the calls read: one of them has no entry
\* in the simulator's table
AuditedCommands == AuditCommands \cup {"BlinkDevice"}

\* the audit options the calls set
SetOptions == {"Off", "On"}

CallSetAuditOption ==
    \E command \in AuditCommands, option \in SetOptions, faults \in CallFaultPlans :
        /\ CallEnabled
        /\ \E r \in {Client_set_audit_option(World(faults), client[1], command, option, now)} :
               CallReturns("set_audit_option", AuditCommand(command, option),
                           [r EXCEPT !.value = "-"])

CallPutForceAuditOption ==
    \E option \in SetOptions, faults \in CallFaultPlans :
        /\ CallEnabled
        /\ \E r \in {Client_put_force_audit_option(World(faults), client[1], option, now)} :
               CallReturns("put_force_audit_option", option, [r EXCEPT !.value = "-"])

CallGetCommandAuditOption ==
    \E command \in AuditedCommands, faults \in CallFaultPlans :
        /\ CallEnabled
        /\ \E r \in {Client_get_command_audit_option(World(faults), client[1], command, now)} :
               CallReturns("get_command_audit_option", command, r)

CallGetForceAuditOption ==
    \E faults \in CallFaultPlans :
        /\ CallEnabled
        /\ \E r \in {Client_get_force_audit_option(World(faults), client[1], now)} :
               CallReturns("get_force_audit_option", NoArgs, r)

\* Session::create over a connector that answers the status request with
\* `status`; the session, if one was opened, goes out of scope at once
CallSessionCreate ==
    \E status \in {Status(TRUE, CONNECTOR_STATUS_OK), Status(TRUE, "BUSY"),
                   Status(FALSE, "-")},
       faults \in CallFaultPlans :
        /\ CallEnabled
        /\ \E r \in {Session_create(World(faults), status, DEFAULT_AUTH_KEY_ID,
                                    DefaultAuthKey, FALSE, now)} :
               /\ hsm' = (IF r.session = None THEN r.w
                          ELSE Session_drop(r.w, r.session[1], now)).hsm
               /\ last' = Called("Session::create", status, r.result, "-",
                                 (IF r.session = None THEN r.w
                                  ELSE Session_drop(r.w, r.session[1], now)).frames,
                                 [client |-> client, hsm |-> hsm])
        /\ UNCHANGED <<client, now>>

CallNext ==
    \/ CallGetPseudoRandom
    \/ CallImportWrapped
    \/ CallPutAsymmetricKey
    \/ CallPutHmacKey
    \/ CallPutOtpAeadKey
    \/ CallPutWrapKey
    \/ CallSignRsaPss
    \/ CallVerifyHmac
    \/ CallSessionCreate
    \/ CallConnect
    \/ CallEcho
    \/ CallPing
    \/ CallSetAuditOption
    \/ CallPutForceAuditOption
    \/ CallGetCommandAuditOption
    \/ CallGetForceAuditOption

CallSpec == CallInit /\ [][CallNext]_vars

(***************************************************************************)
(* One session used by several callers: send_encrypted_command taken apart *)
(* at the connector, where the call blocks (session/mod.rs)                *)
(***************************************************************************)
\* `client`:  the Client whose open session the callers share
\* `hsm`:     the simulator's State
\* `now`:     the wall clock, which does not advance
\* `last`:    where the callers are: for each caller the command it is
\*            waiting on (its frame is with the connector), the frames the
\*            connector holds for the HSM, the answers it holds for the
\*            callers, and for each caller the result of its last command
MaxCallers == 2

Callers == 1 .. MaxCallers

Flight(pending, sent, answered, results) ==
    [op |-> "flight", pending |-> pending, sent |-> sent, answered |-> answered,
     results |-> results]

\* a command a caller waits on, and its frame
Pending(command, frame) == [command |-> command, frame |-> frame]

FlightCommands ==
    {Inner("Echo", "hello"), Inner("GetPseudoRandom", 1),
     Inner("DeleteObject", ObjectParams(MaxObjectId, "Opaque", "-"))}

\* variant: the session is handed out while a command is under way
Exclusive_Shared(caller) == TRUE

\* `&mut self`: a caller gets the session only while no other call on it is
\* under way
Exclusive(caller) == \A c \in Callers : last.pending[c] = None

FlightSession == client[1].session[1]

\* Client::open with the default credentials on a fresh simulator
FlightOpened ==
    Client_open([hsm |-> State_new, frames |-> <<>>,
                 faults |-> [i \in 1 .. MaxFrames |-> "ok"]],
                Credentials(DEFAULT_AUTH_KEY_ID, DefaultAuthKey), TRUE, 0)

FlightInit ==
    /\ client = FlightOpened.client
    /\ hsm = FlightOpened.w.hsm
    /\ now = 0
    /\ last = Flight([c \in Callers |-> None], <<>>, <<>>, [c \in Callers |-> "-"])

\* send_encrypted_command up to the connector: the command is encrypted,
\* the channel advanced and the frame handed to the connector (e is the
\* encrypted command)
FlightEncrypted(caller, command, e) ==
    IF ~e.ok
    THEN /\ last' = [last EXCEPT !.results[caller] = "ProtocolError"]
         /\ UNCHANGED <<client, hsm, now>>
    ELSE IF TimedOut(now - FlightSession.last_command_timestamp)
    THEN /\ client' = Some([client[1] EXCEPT !.session[1].channel = e.ch])
         /\ last' = [last EXCEPT !.results[caller] = "TimeoutError"]
         /\ UNCHANGED <<hsm, now>>
    ELSE /\ client' = Some([client[1] EXCEPT !.session[1].channel = e.ch])
         /\ last' = [last EXCEPT !.pending[caller] = Some(Pending(command, e.frame)),
                                 !.sent = Append(@, e.frame),
                                 !.results[caller] = "-"]
         /\ UNCHANGED <<hsm, now>>

FlightSend ==
    \E caller \in Callers, command \in FlightCommands :
        /\ CounterOk
        /\ Exclusive(caller)
        /\ FlightEncrypted(caller, command,
                           Channel_encrypt_command(FlightSession.channel, command))

\* the connector passes the oldest frame it holds to the HSM and keeps the
\* answer for the caller
FlightDeliver ==
    /\ last.sent # <<>>
    /\ \E r \in {MockHsm_send_command(hsm, Head(last.sent))} :
           /\ hsm' = r.state
           /\ last' = [last EXCEPT !.sent = Tail(@), !.answered = Append(@, r.rsp)]
    /\ UNCHANGED <<client, now>>

\* the connector fails on the oldest frame it holds
FlightFail ==
    /\ last.sent # <<>>
    /\ last' = [last EXCEPT !.sent = Tail(@), !.answered = Append(@, ConnectionError)]
    /\ UNCHANGED <<client, hsm, now>>

\* send_encrypted_command from the connector's answer on: the caller takes
\* the oldest answer, parses, authenticates and decrypts it
FlightReceive ==
    \E caller \in Callers :
        /\ last.pending[caller] # None
        /\ last.answered # <<>>
        /\ \E r \in {Session_decrypt_response(
                         Session_parse_response(
                             [w |-> World(<<>>), rsp |-> Head(last.answered)],
                             FlightSession, last.pending[caller][1].frame, now),
                         last.pending[caller][1].command)} :
               /\ client' = Some([client[1] EXCEPT !.session = Some(r.s)])
               /\ last' = [last EXCEPT !.pending[caller] = None,
                                       !.answered = Tail(@),
                                       !.results[caller] = r.result]
        /\ UNCHANGED <<hsm, now>>

FlightNext == FlightSend \/ FlightDeliver \/ FlightFail \/ FlightReceive

FlightSpec == FlightInit /\ [][FlightNext]_vars

(***************************************************************************)
(* The simulator reading its store (StoreSpec)                             *)
(*                                                                         *)
(* The store is drawn from a set of stores that the commands which create  *)
(* objects can build, under a session opened by the handshake; each        *)
(* behaviour then sends one command that reads: the handlers change        *)
(* nothing, so a second command would meet the same store.                 *)
(* `last` is Wire(frame, rsp, pre) as in SimSpec.                          *)
(***************************************************************************)
\* the longest list of filters a ListObjects command carries
MaxFilters == 2

\* the objects a store may hold under each of its keys
StoredAuthenticationKey ==
    Object(ObjectInfo(DEFAULT_AUTH_KEY_ID, "AuthenticationKey", "YubicoAesAuthentication",
                      Capabilities, {1, 2}, "default"),
           Payload("AuthenticationKey", DefaultAuthKey))

StoredOpaque ==
    Object(ObjectInfo(1, "Opaque", "OpaqueData", {}, {1}, "a"), Payload("Opaque", "data"))

StoredEd25519(id, capabilities, domains, label) ==
    Object(ObjectInfo(id, "AsymmetricKey", "Ed25519", capabilities, domains, label),
           Payload("Ed25519KeyPair", "seed"))

StoredEcdsa(id) ==
    Object(ObjectInfo(id, "AsymmetricKey", "EcP256", Capabilities, {1}, "b"),
           Payload("EcdsaKeyPair", "scalar"))

StoredHmacObject ==
    Object(ObjectInfo(1, "HmacKey", "HmacSha256", {}, {1, 2}, "a"),
           Payload("HmacKey", Key("hmac", HMAC_MIN_KEY_SIZE)))

\* the stores: the default authentication key, and under each of four other
\* keys nothing or an object
Stores ==
    {[k \in ObjectKeys |->
         CASE k = <<DEFAULT_AUTH_KEY_ID, "AuthenticationKey">> -> Some(StoredAuthenticationKey)
           [] k = <<1, "Opaque">> -> o
           [] k = <<1, "AsymmetricKey">> -> a
           [] k = <<MaxObjectId, "AsymmetricKey">> -> b
           [] k = <<1, "HmacKey">> -> h
           [] OTHER -> None] :
         o \in {None, Some(StoredOpaque)},
         a \in {None, Some(StoredEd25519(1, {"SignEddsa"}, {1, 2}, "a")), Some(StoredEcdsa(1))},
         b \in {None, Some(StoredEd25519(MaxObjectId, Capabilities, {2}, "b"))},
         h \in {None, Some(StoredHmacObject)}}

\* the simulator holding `store`, with the force audit option `force`, after
\* the handshake of a host that holds the default authentication key
StoreOpened(store, force) ==
    MockHsm_send_command(
        MockHsm_send_command(
            [State_new EXCEPT !.objects = store, !.force_audit = force],
            Frame("CreateSession", -1, Inner("CreateSession", DEFAULT_AUTH_KEY_ID),
                  NoCryptogram, 0, NoTag)).state,
        Frame("AuthenticateSession", 0, NoInner,
              Channel_host_cryptogram(Channel_new(0, DefaultAuthKey)), 0,
              Tag(DefaultAuthKey, 0))).state

StoreInit ==
    /\ client = None
    /\ now = 0
    /\ \E store \in Stores, force \in {"Off", "On"} :
           /\ hsm = StoreOpened(store, force)
           /\ last = Wire(NoFrame, DeviceError("-"), StoreOpened(store, force))

\* the filters of the ListObjects commands
Filters ==
    {Filter("Algorithm", "Ed25519"), Filter("Capabilities", {"SignEddsa"}),
     Filter("Capabilities", Capabilities), Filter("Domains", {1}),
     Filter("Domains", {1, 2}), Filter("Label", "a"), Filter("Id", 1),
     Filter("Type", "AsymmetricKey")}

FilterLists == UNION {[1 .. n -> Filters] : n \in 0 .. MaxFilters}

\* the first command of the session
StoreRead(inner) ==
    /\ last.frame = NoFrame
    /\ Deliver(MessageFrame(0, inner, TRUE))

\* Client::list_objects serializes its filters into the command
StoreListObjects ==
    \E filters \in FilterLists :
        StoreRead(Inner("ListObjects", ListParams(Filters_serialize(filters))))

StoreGetObjectInfo ==
    \E id \in ObjectIds, type \in {"Opaque", "AsymmetricKey"} :
        StoreRead(Inner("GetObjectInfo", ObjectParams(id, type, "-")))

StoreGetOpaque ==
    \E id \in ObjectIds : StoreRead(Inner("GetOpaqueObject", ObjectParams(id, "-", "-")))

StoreGetPublicKey ==
    \E id \in ObjectIds : StoreRead(Inner("GetPublicKey", ObjectParams(id, "-", "-")))

StoreGetOption ==
    \E tag \in {"Command", "Force"} : StoreRead(Inner("GetOption", GetOptionParams(tag)))

StoreSignEddsa ==
    \E id \in ObjectIds : StoreRead(Inner("SignEddsa", ObjectParams(id, "-", "hello")))

StoreSignHmac ==
    \E id \in ObjectIds : StoreRead(Inner("SignHmac", ObjectParams(id, "-", <<Lit(1)>>)))

\* verify_hmac names the key by the stored object
StoreVerifyHmac ==
    \E id \in ObjectIds, key \in {StoredHmacObject, StoredOpaque} :
        StoreRead(Inner("VerifyHmac", VerifyParams(id, Hmac(key, <<Lit(1)>>), <<Lit(1)>>)))

StoreEcho == StoreRead(Inner("Echo", "hello"))

StoreNext ==
    \/ StoreListObjects
    \/ StoreGetObjectInfo
    \/ StoreGetOpaque
    \/ StoreGetPublicKey
    \/ StoreGetOption
    \/ StoreSignEddsa
    \/ StoreSignHmac
    \/ StoreVerifyHmac
    \/ StoreEcho

StoreSpec == StoreInit /\ [][StoreNext]_vars

(***************************************************************************)
(* Properties                                                              *)
(***************************************************************************)
\* the client, its session and its credentials as they were before the call
PreHasSession == IF last.pre = None THEN FALSE ELSE last.pre[1].session # None

PreSession == last.pre[1].session[1]

PreConnected == IF last.pre = None THEN FALSE ELSE Client_is_connected(last.pre[1])

PreCredentials == IF last.pre = None THEN FALSE ELSE last.pre[1].credentials # None

\* at the call, more than 30 s - 1 s had passed since the session's last command
PreExpired ==
    /\ PreHasSession
    /\ now - PreSession.last_command_timestamp
         > SESSION_INACTIVITY_TIMEOUT - TIMEOUT_SKEW_INTERVAL

FrameIndexes == DOMAIN last.frames

NoFault == \A i \in FrameIndexes : last.frames[i].fault = "ok"

\* C1: a command issued on a session when more than 29 s (30 s - 1 s) passed
\* since its last activity fails with the Timeout error and hands no frame to
\* the connector (neither the command nor the CloseSession of a drop)
C1_TimedOutCommandSendsNothing ==
    (last.op \in {"echo", "reset_device", "drop"} /\ PreConnected /\ PreExpired) =>
        /\ last.frames = <<>>
        /\ (last.op = "echo" => last.result = "TimeoutError")

C1_Witness ==
    /\ last.op = "echo"
    /\ PreConnected
    /\ PreExpired
    /\ last.result = "TimeoutError"

\* C2: after a command failed with the inactivity Timeout error the session
\* is marked closed: the client no longer reports being connected
C2_TimeoutClosesSession ==
    last.result = "TimeoutError" => ~Client_is_connected(client[1])

C4_ReconnectPolicy ==
    /\ (last.op = "open" /\ last.result = "Ok") =>
           /\ client # None
           /\ (client[1].credentials = None) <=> ~last.arg.reconnect
    /\ (last.pre # None /\ ~PreCredentials /\ client # None) =>
           client[1].credentials = None
    /\ (last.op \in {"echo", "connect"} /\ ~PreConnected /\ ~PreCredentials) =>
           /\ last.result = ReconnectDisabled
           /\ last.frames = <<>>
    /\ (last.op = "reset_device" /\ ~PreConnected /\ ~PreCredentials) =>
           last.frames = <<>>
    /\ (last.op \in {"echo", "connect"} /\ ~PreConnected /\ PreCredentials) =>
           /\ last.frames # <<>>
           /\ last.frames[1].code = "CreateSession"
           /\ (NoFault /\ last.frames[1].answer = "CreateSession") =>
                  /\ last.result = "Ok"
                  /\ Client_is_connected(client[1])

C4_Witness ==
    /\ last.op = "echo"
    /\ ~PreConnected
    /\ ~PreCredentials
    /\ last.result = ReconnectDisabled

\* C5: reset_device returns Ok in every case and leaves the client without a
\* session
C5_ResetDeviceAlwaysOk ==
    last.op = "reset_device" =>
        /\ last.result = "Ok"
        /\ client # None
        /\ client[1].session = None
        /\ ~Client_is_connected(client[1])

\* a reset_device whose ResetDevice command failed in the connector
C5_Witness ==
    /\ last.op = "reset_device"
    /\ \E i \in FrameIndexes :
           /\ last.frames[i].cmd = "ResetDevice"
           /\ last.frames[i].fault = "io_recv"
    /\ last.result = "Ok"
    /\ client[1].session = None

\* the frame at `i` went out on a session whose handshake was completed
\* earlier in the same call: its AuthenticateSession was answered and the
\* answer arrived intact
Established(i) ==
    \E j \in FrameIndexes :
        /\ j < i
        /\ last.frames[j].code = "AuthenticateSession"
        /\ last.frames[j].sid = last.frames[i].sid
        /\ last.frames[j].answer = "AuthenticateSession"
        /\ last.frames[j].fault = "ok"

\* the call started by opening a session
OpensSession ==
    IF last.frames = <<>> THEN FALSE ELSE last.frames[1].code = "CreateSession"

\* the authentication key the call derives the session keys from
KeyUsed ==
    IF last.op = "open" THEN last.arg.key
    ELSE IF PreCredentials THEN last.pre[1].credentials[1].key
    ELSE "-"

\* the client exists and reports an open session after the call
Connected == IF client = None THEN FALSE ELSE Client_is_connected(client[1])

\* C6 as stated: after reset_device (the only way a client comes to hold no
\* session) a further command opens a new session
C6_CommandAfterResetOpensSession ==
    (last.op = "echo" /\ last.pre # None /\ ~PreHasSession) => OpensSession

\* C6 as amended: reset_device keeps the credentials; after it, a further
\* command of a client that retained its credentials starts with a fresh
\* CreateSession / AuthenticateSession handshake, the command goes out third,
\* on the session just authenticated, with counter 1, and when neither the
\* connector nor the HSM fails it succeeds on that session; a client without
\* credentials gets AuthFail "session reconnection disabled" and sends nothing
C6_CommandAfterResetReconnects ==
    /\ (last.op = "reset_device" /\ PreCredentials) =>
           client[1].credentials = last.pre[1].credentials
    /\ (last.op = "echo" /\ last.pre # None /\ ~PreHasSession /\ PreCredentials) =>
           /\ OpensSession
           /\ \A i \in FrameIndexes :
                  last.frames[i].code = "SessionMessage" =>
                      /\ i = 3
                      /\ last.frames[2].code = "AuthenticateSession"
                      /\ Established(i)
                      /\ last.frames[i].cmd = "Echo"
                      /\ last.frames[i].ctr = 1
                      /\ client[1].session # None
                      /\ client[1].session[1].id = last.frames[i].sid
           /\ (NoFault /\ last.frames[1].answer = "CreateSession") =>
                  /\ last.result = "Ok"
                  /\ Len(last.frames) = 3
                  /\ last.frames[3].answer = "Echo"
                  /\ Connected
    /\ (last.op = "echo" /\ last.pre # None /\ ~PreHasSession /\ ~PreCredentials) =>
           /\ last.result = ReconnectDisabled
           /\ last.frames = <<>>

C6_Witness ==
    /\ last.op = "echo"
    /\ last.pre # None
    /\ ~PreHasSession
    /\ PreCredentials
    /\ last.result = "Ok"
    /\ Len(last.frames) = 3
    /\ last.frames[3].cmd = "Echo"

\* the card cryptogram received in answer to the CreateSession at `i` differs
\* from the one derived locally: the HSM derives it from its own key, so it
\* differs when the answer arrived corrupted, or arrived intact and the keys
\* differ
CardCryptogramMismatch(i) ==
    /\ last.frames[i].code = "CreateSession"
    /\ last.frames[i].answer = "CreateSession"
    /\ \/ last.frames[i].fault = "tamper"
       \/ last.frames[i].fault = "ok" /\ KeyUsed # DefaultAuthKey

\* C7: when the card cryptogram of the CreateSession response differs from
\* the locally derived one, opening the session fails with AuthFailed,
\* nothing is sent after the CreateSession (no AuthenticateSession), and no
\* session is returned: Client::open yields no client, and a client that was
\* reconnecting keeps what it had
C7_CardCryptogramMismatchAborts ==
    \A i \in FrameIndexes :
        CardCryptogramMismatch(i) =>
            /\ i = Len(last.frames)
            /\ \A j \in FrameIndexes : last.frames[j].code # "AuthenticateSession"
            /\ (last.op \in {"open", "connect", "echo"} => last.result = "AuthFailed")
            /\ (last.op = "open" => client = None)
            /\ (last.op \in {"connect", "echo"} =>
                    /\ client[1].session = last.pre[1].session
                    /\ ~Connected)
            /\ (last.op = "reset_device" => client[1].session = None)

C7_Witness ==
    /\ last.op = "open"
    /\ \E i \in FrameIndexes : CardCryptogramMismatch(i)
    /\ last.result = "AuthFailed"
    /\ client = None

\* a step of the handshake the call started has failed
HandshakeFailed ==
    \/ last.frames[1].fault # "ok"
    \/ last.frames[1].answer # "CreateSession"
    \/ KeyUsed # DefaultAuthKey
    \/ IF Len(last.frames) < 2 THEN TRUE
       ELSE \/ last.frames[2].code # "AuthenticateSession"
            \/ last.frames[2].fault # "ok"
            \/ last.frames[2].answer # "AuthenticateSession"

\* C8: in every call, CreateSession is the first frame; AuthenticateSession
\* is the second, sent only after a CreateSession answer that arrived intact
\* under the right key; a SessionMessage goes out only on a session whose
\* AuthenticateSession answer was received and verified (in this call, or on
\* the session that was open before it); the client reports an open session
\* only under the same condition; a successful open or connect leaves an open
\* session, and a handshake that fails at any step yields an error (swallowed
\* only by reset_device) and no open session
C8_HandshakeOrdering ==
    /\ \A i \in FrameIndexes :
           /\ last.frames[i].code = "CreateSession" => i = 1
           /\ last.frames[i].code = "AuthenticateSession" =>
                  /\ i = 2
                  /\ last.frames[1].code = "CreateSession"
                  /\ last.frames[1].answer = "CreateSession"
                  /\ last.frames[1].fault = "ok"
                  /\ KeyUsed = DefaultAuthKey
           /\ last.frames[i].code = "SessionMessage" =>
                  IF OpensSession THEN i >= 3 /\ Established(i)
                  ELSE PreConnected /\ last.frames[i].sid = PreSession.id
    /\ (last.op \in {"open", "connect", "echo", "reset_device"} /\ Connected) =>
           IF OpensSession
           THEN /\ ~HandshakeFailed
                /\ last.frames[2].sid = client[1].session[1].id
           ELSE last.op \in {"connect", "echo"} /\ PreConnected
                  /\ client[1].session[1].id = PreSession.id
    /\ (last.op \in {"open", "connect"} /\ last.result = "Ok") => Connected
    /\ (OpensSession /\ HandshakeFailed) =>
           /\ ~Connected
           /\ (last.op # "reset_device" => last.result # "Ok")

\* a session opened by a complete handshake and used in the same call
C8_Witness ==
    /\ last.op = "echo"
    /\ OpensSession
    /\ ~HandshakeFailed
    /\ Len(last.frames) = 3
    /\ last.frames[3].code = "SessionMessage"
    /\ Connected

\* the response to the SessionMessage at `i` reached the session with a MAC
\* that does not verify
ResponseMacFailed(i) ==
    /\ last.frames[i].code = "SessionMessage"
    /\ last.frames[i].fault = "tamper"
    /\ last.frames[i].answer \notin {"-", "ConnectionError", "Panic", "DeviceError"}

PreTerminated ==
    IF PreHasSession THEN PreSession.channel.security_level = "Terminated" ELSE FALSE

\* C9: a response whose MAC does not verify ends the session: the command
\* fails with ResponseError, the channel is terminated and the session no
\* longer open, nothing more is sent in that call; and while the client holds
\* a terminated session, every SessionMessage it sends is on a session
\* authenticated afresh in the same call, a drop or a client without
\* credentials sends nothing, and the client reports an open session again
\* only after a new handshake
C9_FailedResponseMacIsTerminal ==
    /\ \A i \in FrameIndexes :
           ResponseMacFailed(i) =>
               /\ i = Len(last.frames)
               /\ ~Connected
               /\ (last.op = "echo" =>
                       /\ last.result = "ResponseError"
                       /\ client[1].session # None
                       /\ client[1].session[1].channel.security_level = "Terminated")
    /\ PreTerminated =>
           /\ \A i \in FrameIndexes :
                  last.frames[i].code = "SessionMessage" => Established(i)
           /\ (last.op = "drop" \/ ~PreCredentials) => last.frames = <<>>
           /\ (last.op \in {"connect", "echo"} /\ ~PreCredentials) =>
                  /\ last.result = ReconnectDisabled
                  /\ client[1].session = last.pre[1].session
           /\ Connected => (OpensSession /\ ~HandshakeFailed)

C9_Witness ==
    /\ last.op = "echo"
    /\ \E i \in FrameIndexes : ResponseMacFailed(i)
    /\ last.result = "ResponseError"
    /\ client[1].session[1].channel.security_level = "Terminated"

\* the encryption counter of the client's session after the call
Counter == client[1].session[1].channel.counter

\* C10: the encryption counter of a session starts at 1 and every command
\* on the session takes the next value, whether the command succeeds, times
\* out, fails in the connector or is answered with an error: the first
\* SessionMessage after the handshake carries 1, consecutive SessionMessages
\* carry consecutive values, a call continues at the value the session had
\* reached, and after a command the session holds the value after the one
\* the command took
C10_EncryptionCounter ==
    /\ client # None => (client[1].session # None => Counter >= 1)
    /\ \A i \in FrameIndexes :
           last.frames[i].code = "SessionMessage" =>
               IF i = 1
               THEN PreHasSession /\ last.frames[i].ctr = PreSession.channel.counter
               ELSE IF last.frames[i - 1].code = "AuthenticateSession"
               THEN last.frames[i].ctr = 1
               ELSE /\ last.frames[i - 1].code = "SessionMessage"
                    /\ last.frames[i - 1].sid = last.frames[i].sid
                    /\ last.frames[i].ctr = last.frames[i - 1].ctr + 1
    /\ (last.op = "echo" /\ PreConnected) =>
           /\ client[1].session[1].id = PreSession.id
           /\ Counter = PreSession.channel.counter + 1
    /\ (last.op = "echo" /\ ~PreConnected /\ Connected) => Counter = 2
    /\ (last.op \in {"open", "connect"} /\ last.result = "Ok" /\ OpensSession) =>
           Counter = 1
    /\ (last.op = "connect" /\ PreConnected) => client[1].session = last.pre[1].session

\* the third command of a session fails in the connector and still takes
\* its counter value
C10_Witness ==
    /\ last.op = "echo"
    /\ PreConnected
    /\ PreSession.channel.counter = 2
    /\ last.result = "IoError"
    /\ Len(last.frames) = 1
    /\ last.frames[1].ctr = 2
    /\ Counter = 3

\* the MAC chaining value of the client's session after the call
Chain == client[1].session[1].channel.mac_chaining_value

\* the response to the frame at `i` was an encrypted SessionMessage that
\* reached the session as the HSM sent it
ResponseVerified(i) ==
    /\ last.frames[i].code = "SessionMessage"
    /\ last.frames[i].fault = "ok"
    /\ last.frames[i].answer \notin {"-", "ConnectionError", "Panic", "DeviceError"}

\* C11: a command handed to the connector advances the session's MAC
\* chaining value once, and the response advances it once more when it is
\* received and verified, and not otherwise; after a completed command and
\* response the chaining values of the client and of the simulator's session
\* are equal; a response altered on the way is rejected with ResponseError
C11_MacChainAdvances ==
    /\ (last.op = "echo" /\ PreConnected /\ ~PreExpired) =>
           /\ Len(last.frames) = 1
           /\ Chain = PreSession.channel.mac_chaining_value
                        + 1 + (IF ResponseVerified(1) THEN 1 ELSE 0)
    /\ (last.op = "echo" /\ last.result = "Ok") =>
           /\ hsm.sessions[client[1].session[1].id] # None
           /\ hsm.sessions[client[1].session[1].id][1].mac_chaining_value = Chain
           /\ ResponseVerified(Len(last.frames))
    /\ (last.op = "echo" /\ last.frames # <<>>) =>
           (ResponseMacFailed(Len(last.frames)) => last.result = "ResponseError")

\* the second command of a session completes: four steps of the chain after
\* the two of the handshake
C11_Witness ==
    /\ last.op = "echo"
    /\ PreConnected
    /\ last.result = "Ok"
    /\ PreSession.channel.mac_chaining_value = 4
    /\ Chain = 6
    /\ hsm.sessions[client[1].session[1].id][1].mac_chaining_value = 6

\* the call ended with a command answered by a device error of the command
\* level: the object to delete does not exist
CommandLevelError ==
    /\ last.op = "delete_object"
    /\ last.frames # <<>>
    /\ last.frames[Len(last.frames)].cmd = "DeleteObject"
    /\ last.frames[Len(last.frames)].fault = "ok"
    /\ last.frames[Len(last.frames)].answer = "ObjectNotFound"

\* the call ended with an error of the session level: the inactivity
\* timeout, a failure of the connector, or a response whose MAC does not
\* verify
SessionLevelError ==
    /\ last.op \in {"echo", "delete_object"}
    /\ \/ last.result \in {"TimeoutError", "IoError"}
       \/ IF last.frames = <<>> THEN FALSE ELSE ResponseMacFailed(Len(last.frames))

\* the session a command-level error leaves behind: open, and in step with
\* the simulator's session of the same id
C12_SessionAfterCommandError ==
    CommandLevelError =>
        /\ last.result = "ResponseError"
        /\ Connected
        /\ client[1].session[1].id = last.frames[Len(last.frames)].sid
        /\ hsm.sessions[client[1].session[1].id] = Some(client[1].session[1].channel)

\* the command after a command-level error goes out on the same session and,
\* when the connector does not fail, succeeds
C12_NextCommandAfterCommandError ==
    (CommandLevelError /\ last'.op = "echo") =>
        /\ Len(last'.frames) = 1
        /\ last'.frames[1].code = "SessionMessage"
        /\ last'.frames[1].sid = client[1].session[1].id
        /\ client'[1].session[1].id = client[1].session[1].id
        /\ (last'.frames[1].fault = "ok" => last'.result = "Ok")

\* the command after a session-level error does not succeed on that session
C12_NextCommandAfterSessionError ==
    (SessionLevelError /\ last'.op = "echo" /\ last'.result = "Ok") =>
        /\ last'.frames[1].code = "CreateSession"
        /\ ~Client_is_connected(client[1])

\* C12: a command answered with a device error (ObjectNotFound) fails with
\* ResponseError and leaves the session open, with the same id and in step
\* with the simulator; the next command is sent on it and succeeds when the
\* connector does not fail; after a session-level error (timeout, connector
\* failure, response MAC failure) the next command succeeds, if at all, only
\* on a newly opened session
C12_CommandErrorsDoNotPoison ==
    /\ []C12_SessionAfterCommandError
    /\ [][C12_NextCommandAfterCommandError]_vars
    /\ [][C12_NextCommandAfterSessionError]_vars

C12_Witness ==
    /\ CommandLevelError
    /\ last.result = "ResponseError"
    /\ Connected
    /\ client[1].session[1].channel.counter = 2

(***************************************************************************)
(* Properties of the simulator (SimSpec)                                   *)
(***************************************************************************)
\* the session the last frame was addressed to, as it was before the frame
WireAddressed ==
    IF last.frame.sid \in SessionIds THEN last.pre.sessions[last.frame.sid] ELSE None

PreHalfOpen ==
    IF WireAddressed = None THEN FALSE ELSE WireAddressed[1].security_level = "None"

PreOpen ==
    IF WireAddressed = None THEN FALSE
    ELSE WireAddressed[1].security_level = "Authenticated"

\* the simulator answered with a device error frame carrying `kind`
AnsweredDeviceError(kind) == last.rsp = DeviceError(kind)

AnsweredSomeDeviceError ==
    last.rsp.kind = "Message" /\ last.rsp.code = "DeviceError"

\* C13: an AuthenticateSession whose MAC does not verify, addressed to a
\* half-open session, is answered with an error and the session is discarded:
\* the simulator does not crash and the session is not opened
C13_InvalidMacDiscardsSession ==
    (last.frame.code = "AuthenticateSession" /\ last.frame.tag = NoTag /\ PreHalfOpen) =>
        /\ AnsweredSomeDeviceError
        /\ hsm.sessions[last.frame.sid] = None

\* C14: a frame with an opcode other than SessionMessage addressed to an open
\* session is answered with the device error InvalidSession and changes
\* neither that session nor the object store
C14_OpenAcceptsOnlySessionMessage ==
    (PreOpen /\ last.frame.code # "SessionMessage") =>
        /\ AnsweredDeviceError("InvalidSession")
        /\ hsm.sessions[last.frame.sid] = last.pre.sessions[last.frame.sid]
        /\ hsm.objects = last.pre.objects

\* the last frame is a SessionMessage with a valid MAC
ValidMessage ==
    /\ last.frame.code = "SessionMessage"
    /\ PreOpen
    /\ last.frame.tag = Tag(WireAddressed[1].key, WireAddressed[1].mac_chaining_value)

\* the inner command of the last frame carries data its handler cannot parse
MalformedCommand ==
    IF last.frame.inner.code \in {"DeleteObject", "GenerateAsymmetricKey", "PutAsymmetricKey",
                                  "PutAuthenticationKey", "PutOpaqueObject"}
    THEN ~last.frame.inner.data.ok
    ELSE IF last.frame.inner.code = "SetOption"
    THEN last.frame.inner.data.value \notin AuditOptions
    ELSE FALSE

\* what a rejected command must leave alone: the objects, the audit settings
\* and which sessions exist
SameDeviceState ==
    /\ hsm.objects = last.pre.objects
    /\ hsm.force_audit = last.pre.force_audit
    /\ hsm.command_audit_options = last.pre.command_audit_options
    /\ \A sid \in SessionIds : (hsm.sessions[sid] = None) <=> (last.pre.sessions[sid] = None)

\* C15: a command received in the Open state whose payload does not parse is
\* answered with the device error InvalidCommand, the simulator does not
\* panic, and the rejected command changes nothing
C15_ParseFailureIsInvalidCommand ==
    (ValidMessage /\ MalformedCommand) =>
        /\ last.rsp.kind = "Message"
        /\ last.rsp.inner = Inner("DeviceError", "InvalidCommand")
        /\ SameDeviceState

\* the object type each object-creating command stores
CreatedType(code) ==
    CASE code = "GenerateAsymmetricKey" -> "AsymmetricKey"
      [] code = "PutAsymmetricKey" -> "AsymmetricKey"
      [] code = "PutAuthenticationKey" -> "AuthenticationKey"
      [] code = "PutOpaqueObject" -> "Opaque"

\* the last frame is a well-formed object-creating command on an open session
CreatesObject ==
    /\ ValidMessage
    /\ last.frame.inner.code \in {"GenerateAsymmetricKey", "PutAsymmetricKey",
                                  "PutAuthenticationKey", "PutOpaqueObject"}
    /\ last.frame.inner.data.ok

RequestedId == last.frame.inner.data.id

RequestedType == CreatedType(last.frame.inner.code)

\* C16: creating an object under a non-zero id that is already taken for the
\* object type is rejected with the device error InvalidData and the object
\* stored under (id, type) stays as it was
C16_CollisionIsInvalidData ==
    (/\ CreatesObject
     /\ RequestedId # 0
     /\ Objects_get(last.pre.objects, RequestedId, RequestedType) # None) =>
        /\ last.rsp.kind = "Message"
        /\ last.rsp.inner = Inner("DeviceError", "InvalidData")
        /\ Objects_get(hsm.objects, RequestedId, RequestedType)
               = Objects_get(last.pre.objects, RequestedId, RequestedType)

\* C17: an object created with the requested id 0 is stored under an id the
\* simulator chose and the response carries that id; created with a free
\* non-zero id it is stored under that id, the response carries it, and a
\* lookup by (id, type) finds the object
C17_CreatedObjectId ==
    CreatesObject =>
        IF RequestedId = 0
        THEN Objects_has_free_id(last.pre.objects, RequestedType) =>
                 \E id \in ObjectIds :
                     /\ Objects_get(last.pre.objects, id, RequestedType) = None
                     /\ Objects_get(hsm.objects, id, RequestedType) # None
                     /\ last.rsp.inner = Inner(last.frame.inner.code, id)
        ELSE Objects_get(last.pre.objects, RequestedId, RequestedType) = None =>
                 /\ last.rsp.inner = Inner(last.frame.inner.code, RequestedId)
                 /\ Objects_get(hsm.objects, RequestedId, RequestedType) # None

\* the simulator handled a ResetDevice command of an open session
HandledResetDevice == ValidMessage /\ last.frame.inner.code = "ResetDevice"

\* C18: after the simulator handled ResetDevice the object store holds only
\* the default objects, no session is left (those of other clients included)
\* and the audit settings are the default ones
C18_ResetRestoresDefaults ==
    HandledResetDevice =>
        /\ hsm.objects = DefaultObjects
        /\ \A sid \in SessionIds : hsm.sessions[sid] = None
        /\ hsm.force_audit = "Off"
        /\ \A c \in AuditCommands : hsm.command_audit_options[c] = "Off"

\* a reset of a device that held created objects, changed audit settings and
\* another client's open session
C18_Witness ==
    /\ HandledResetDevice
    /\ last.pre.objects # DefaultObjects
    /\ last.pre.force_audit = "On"
    /\ \E sid \in SessionIds \ {last.frame.sid} :
           IF last.pre.sessions[sid] = None THEN FALSE
           ELSE last.pre.sessions[sid][1].security_level = "Authenticated"
    /\ hsm = State_new

\* the channel of the host that sent the last frame, in step with the
\* session's channel on the simulator, once the command went out
HostChannelAfterSend == Channel_encrypt_command(WireAddressed[1], last.frame.inner).ch

\* C19: the answer to ResetDevice is the one-byte response 0x01 encrypted
\* under the keys of the session that asked, built before the state is torn
\* down: the host verifies and decrypts it with the channel it sent on
C19_ResetResponseUnderSessionKeys ==
    HandledResetDevice =>
        /\ last.rsp.kind = "Message"
        /\ last.rsp.code = "SessionMessage"
        /\ last.rsp.sid = last.frame.sid
        /\ Channel_decrypt_response(HostChannelAfterSend, last.rsp).ok
        /\ Channel_decrypt_response(HostChannelAfterSend, last.rsp).inner
               = Inner("ResetDevice", 1)

\* the response of a reset that tore the asking session down
C19_Witness ==
    /\ HandledResetDevice
    /\ hsm.sessions[last.frame.sid] = None
    /\ last.rsp.tag = Tag(WireAddressed[1].key, WireAddressed[1].mac_chaining_value + 1)
    /\ last.rsp.inner = Inner("ResetDevice", 1)

OtherOpenSessions ==
    {b \in SessionIds \ {last.frame.sid} :
        IF last.pre.sessions[b] = None THEN FALSE
        ELSE last.pre.sessions[b][1].security_level = "Authenticated"}

\* C22: parallel sessions are independent: a command that arrives over an
\* open session A (CloseSession included; ResetDevice, which ends every
\* session, aside) leaves the channel of every other open session B as it
\* was, and the simulator stays up to answer B
C22_ParallelSessionsIndependent ==
    (ValidMessage /\ last.frame.inner.code # "ResetDevice") =>
        \A b \in OtherOpenSessions :
            /\ hsm.sessions[b] = last.pre.sessions[b]
            /\ ~Crashed

(***************************************************************************)
(* Properties of the validating calls (CallSpec)                           *)
(***************************************************************************)
\* the client and the HSM as the last call found them
CallPreClient == last.pre.client[1]

CallPreHsm == last.pre.hsm

\* the last call handed nothing to the connector
NothingSent == last.frames = <<>>

\* the last call was refused before anything was sent: ProtocolError, no
\* session opened, no frame, the HSM as it was
RejectedLocally ==
    /\ last.result = "ProtocolError"
    /\ NothingSent
    /\ client = last.pre.client
    /\ hsm = CallPreHsm

\* the last call sent the command `cmd` over its session
SentCommand(cmd) ==
    \E i \in DOMAIN last.frames :
        last.frames[i].code = "SessionMessage" /\ last.frames[i].cmd = cmd

\* the data of the command `cmd` the last call sent
SentData(cmd) ==
    last.frames[CHOOSE i \in DOMAIN last.frames :
                    last.frames[i].code = "SessionMessage" /\ last.frames[i].cmd = cmd].data

\* every frame of the last call was answered by the HSM as it is
DeviceInOrder == \A i \in DOMAIN last.frames : last.frames[i].fault = "ok"

\* C27: sign_rsa_pss_sha256 refuses a message longer than
\* RSA_PSS_MAX_MESSAGE_SIZE with ProtocolError and sends nothing, and lets
\* every message of at most that length pass: its command is sent
C27_RsaPssRejectsOversize ==
    last.op = "sign_rsa_pss_sha256" =>
        IF last.arg.len > RSA_PSS_MAX_MESSAGE_SIZE
        THEN last.result = "ProtocolError" /\ NothingSent
        ELSE SentCommand("SignPss")

\* the HMAC key stored under the id the calls use, as the last call found it
StoredHmacKey == Objects_get(CallPreHsm.objects, KeyId, "HmacKey")

\* the tag of the last call is the HMAC of its message under the stored key
TagIsHmac ==
    IF StoredHmacKey = None THEN FALSE
    ELSE last.arg.tag = Hmac(StoredHmacKey[1], last.arg.msg)

\* C26: verify_hmac returns Ok exactly when the tag is the HMAC of the
\* message under the stored key and fails with ResponseError otherwise, and
\* the simulator's objects and audit settings stay as they were
C26_VerifyHmacExact ==
    (last.op = "verify_hmac" /\ DeviceInOrder) =>
        /\ last.result = (IF TagIsHmac THEN "Ok" ELSE "ResponseError")
        /\ hsm.objects = CallPreHsm.objects
        /\ hsm.force_audit = CallPreHsm.force_audit
        /\ hsm.command_audit_options = CallPreHsm.command_audit_options

\* the calls that put a key of a fixed length
FixedLengthPuts == {"put_asymmetric_key", "put_otp_aead_key", "put_wrap_key"}

\* C28: put_asymmetric_key, put_otp_aead_key and put_wrap_key refuse a key
\* whose length is not the key length of its algorithm before anything is
\* sent: ProtocolError, no session opened, no frame, the store unchanged
C28_FixedKeyLength ==
    (last.op \in FixedLengthPuts /\ last.arg.len # last.arg.key_len) => RejectedLocally

\* a client without a session was handed an asymmetric key one byte too
\* long and refused it
C28_Witness ==
    /\ last.op = "put_asymmetric_key"
    /\ last.arg.len = last.arg.key_len + 1
    /\ CallPreClient.session = None
    /\ RejectedLocally

\* the last put_hmac_key was given a key of a length the algorithm allows
HmacKeyLengthAllowed ==
    HMAC_MIN_KEY_SIZE <= last.arg.len /\ last.arg.len <= last.arg.max_key_len

\* C29: put_hmac_key lets a key pass exactly when its length is at least
\* HMAC_MIN_KEY_SIZE and at most the maximum of its algorithm: such a key
\* is sent in a PutHmacKey command, any other is refused with ProtocolError
\* before anything is sent
C29_HmacKeyLength ==
    last.op = "put_hmac_key" =>
        IF HmacKeyLengthAllowed
        THEN SentCommand("PutHmacKey") /\ SentData("PutHmacKey").payload.len = last.arg.len
        ELSE RejectedLocally

\* a key one byte longer than the algorithm allows was refused
C29_Witness ==
    /\ last.op = "put_hmac_key"
    /\ last.arg.len = last.arg.max_key_len + 1
    /\ RejectedLocally

\* C30: get_pseudo_random(n) refuses n above MAX_RAND_BYTES with
\* ProtocolError before anything is sent; for n up to MAX_RAND_BYTES the
\* 16-bit length on the wire is n and the simulator returns n bytes
C30_PseudoRandomLength ==
    last.op = "get_pseudo_random" =>
        IF last.arg.bytes > MAX_RAND_BYTES THEN RejectedLocally
        ELSE /\ SentCommand("GetPseudoRandom")
             /\ SentData("GetPseudoRandom") = last.arg.bytes
             /\ DeviceInOrder => (last.result = "Ok" /\ last.value = last.arg.bytes)

\* MAX_RAND_BYTES bytes were asked for and returned
C30_Witness ==
    /\ last.op = "get_pseudo_random"
    /\ last.arg.bytes = MAX_RAND_BYTES
    /\ last.result = "Ok"
    /\ last.value = MAX_RAND_BYTES

\* the wrap key stored under the id the calls use, as the last call found it
StoredWrapKey == Objects_get(CallPreHsm.objects, KeyId, "WrapKey")

\* the last call imported an object wrapped under the stored wrap key
ImportUnderStoredKey ==
    /\ last.op = "import_wrapped"
    /\ DeviceInOrder
    /\ IF StoredWrapKey = None THEN FALSE ELSE StoredWrapKey[1].key = last.arg.key

\* C25: an import under a wrap key that delegates the capabilities D
\* succeeds exactly when the capabilities of the wrapped object are among D;
\* a rejected import fails with ResponseError and leaves the store unchanged
C25_DelegatedCapabilities ==
    ImportUnderStoredKey =>
        IF last.arg.capabilities \subseteq StoredWrapKey[1].delegated_capabilities
        THEN last.result = "Ok"
        ELSE last.result = "ResponseError" /\ hsm.objects = CallPreHsm.objects

\* an object with a capability the wrap key does not delegate, although it
\* delegates another, was rejected
C25_Witness ==
    /\ ImportUnderStoredKey
    /\ StoredWrapKey[1].delegated_capabilities # {}
    /\ ~(last.arg.capabilities \subseteq StoredWrapKey[1].delegated_capabilities)
    /\ last.result = "ResponseError"

\* the last frame of the last call was a session message the device answered
\* under the session keys with the response to another command
AnsweredOtherCommand ==
    IF last.frames = <<>> THEN FALSE
    ELSE /\ last.frames[Len(last.frames)].code = "SessionMessage"
         /\ last.frames[Len(last.frames)].fault = "miscode"
         /\ last.frames[Len(last.frames)].answer \notin {"Panic", "ConnectionError"}

\* C23: a decrypted response whose command code is neither that of the
\* request nor the device error makes the command fail with ProtocolError
C23_OtherCodeIsProtocolError ==
    (last.op # "Session::create" /\ AnsweredOtherCommand) => last.result = "ProtocolError"

\* the status of the connector the last Session::create met
StatusOk == last.arg.ok /\ last.arg.message = CONNECTOR_STATUS_OK

\* no frame was sent and the HSM is as it was
NoSessionAttempted == NothingSent /\ hsm = CallPreHsm

\* C24 as claimed: unless the status call returns the message "OK", a failing
\* status call included, Session::create fails with CreateFailed and no
\* CreateSession is sent
C24_StatusMustBeOk ==
    (last.op = "Session::create" /\ ~StatusOk) =>
        last.result = "CreateFailed" /\ NoSessionAttempted

\* C24: Session::create sends no CreateSession unless the status call
\* returned the message "OK": another message fails it with CreateFailed,
\* a failing status call with the error of the connector
C24_StatusGatesCreate ==
    (last.op = "Session::create" /\ ~StatusOk) =>
        /\ NoSessionAttempted
        /\ last.result = (IF last.arg.ok THEN "CreateFailed" ELSE "IoError")

\* the connector reported a status other than "OK" and nothing was sent
C24_Witness ==
    /\ last.op = "Session::create"
    /\ last.arg.ok
    /\ last.arg.message # CONNECTOR_STATUS_OK
    /\ last.result = "CreateFailed"
    /\ NoSessionAttempted

(***************************************************************************)
(* Properties of the shared session (FlightSpec)                           *)
(***************************************************************************)
\* the commands of the session that were sent and whose response (or
\* failure) was not yet processed
InFlight == Len(last.sent) + Len(last.answered)

Waiting == {c \in Callers : last.pending[c] # None}

\* C21: at most one command is in flight per session: while a command was
\* sent and its response or failure is not yet processed, exactly one caller
\* holds the session and no second command is sent; any other caller has to
\* wait for that caller to finish
C21_OneCommandInFlight ==
    /\ InFlight <= 1
    /\ Cardinality(Waiting) = InFlight

\* a caller waits on a command the HSM has answered; the other callers are
\* kept off the session
C21_Witness ==
    /\ last.answered # <<>>
    /\ Waiting # {}
    /\ ~ENABLED FlightSend
    /\ \E c \in Callers : last.results[c] = "Ok"

(***************************************************************************)
(* Properties of the validating calls (CallSpec), continued                *)
(***************************************************************************)
\* C32: connect is idempotent: on a client whose session is open it returns
\* Ok, sends neither CreateSession nor AuthenticateSession (nothing at all)
\* and keeps the session with its id; and after create, before the first
\* connect or command, the client has no session: is_connected is false and
\* session_id is None
C32_ConnectIdempotent ==
    /\ (last.op = "connect" /\ Client_is_connected(CallPreClient)) =>
           /\ last.result = "Ok"
           /\ NothingSent
           /\ client = last.pre.client
           /\ Client_session_id(client[1]) = Client_session_id(CallPreClient)
    /\ last.op = "create" =>
           /\ ~Client_is_connected(client[1])
           /\ Client_session_id(client[1]) = None

\* connect was called on a client whose session was open
C32_Witness ==
    /\ last.op = "connect"
    /\ Client_is_connected(CallPreClient)
    /\ Client_session_id(client[1]) # None
    /\ last.result = "Ok"

(***************************************************************************)
(* Properties of the client calls (Spec), continued                        *)
(***************************************************************************)
\* the secure channel of the client's session after the call
ChannelAfter == client[1].session[1].channel

\* C34: a command that fails with the inactivity Timeout error leaves the
\* session's secure channel as it was before the call: neither the
\* encryption counter nor the MAC chaining value has advanced
C34_TimeoutKeepsChannel ==
    (/\ last.op \in {"echo", "delete_object"}
     /\ PreConnected
     /\ last.result = "TimeoutError") =>
        /\ ChannelAfter.counter = PreSession.channel.counter
        /\ ChannelAfter.mac_chaining_value = PreSession.channel.mac_chaining_value

\* C35: once reset_device handed ResetDevice to the connector, no later
\* frame of the call carries the session id of the invalidated session
C35_NoFrameAfterReset ==
    last.op = "reset_device" =>
        \A i \in FrameIndexes :
            last.frames[i].cmd = "ResetDevice" =>
                \A j \in FrameIndexes :
                    j > i => last.frames[j].sid # last.frames[i].sid

\* the session of the client after the call
SessionAfter == client[1].session[1]

\* frame i was answered by bytes that parsed as a response message
ResponseParsed(i) ==
    /\ last.frames[i].fault \notin {"io_send", "io_recv", "garble"}
    /\ last.frames[i].answer \notin {"-", "ConnectionError", "Panic"}

EchoAnswered ==
    IF last.frames = <<>> THEN FALSE
    ELSE /\ last.frames[Len(last.frames)].cmd = "Echo"
         /\ last.frames[Len(last.frames)].answer = "Echo"

\* the bytes that came back were not the bytes of the request
EchoedOtherBytes == EchoAnswered /\ last.frames[Len(last.frames)].fault = "misecho"

\* C31: an echo answered by the HSM as it is returns exactly the bytes that
\* were sent; a ping whose Echo comes back with other bytes than the UUID it
\* sent fails with ResponseError, and a ping succeeds only when the bytes
\* came back unchanged
C31_EchoRoundTrip ==
    /\ (last.op = "echo" /\ DeviceInOrder /\ EchoAnswered) =>
           /\ last.result = "Ok"
           /\ last.value = last.arg
           /\ SentData("Echo") = last.arg
    /\ (last.op = "ping" /\ EchoedOtherBytes) => last.result = "ResponseError"
    /\ (last.op = "ping" /\ last.result = "Ok") =>
           /\ EchoAnswered
           /\ ~EchoedOtherBytes
           /\ SentData("Echo") = last.arg

C31_Witness ==
    /\ last.op = "ping"
    /\ EchoedOtherBytes
    /\ last.result = "ResponseError"

(***************************************************************************)
(* Properties of the simulator (SimSpec), continued                        *)
(***************************************************************************)
HandledCloseSession == ValidMessage /\ last.frame.inner.code = "CloseSession"

\* the last frame was a SessionMessage under an id that named no session
ToClosedSession == last.frame.code = "SessionMessage" /\ WireAddressed = None

AnsweredError ==
    \/ last.rsp.kind # "Message"
    \/ last.rsp.code = "DeviceError"

\* C36: CloseSession is answered with a response encrypted under the keys
\* of the closing session, which the host verifies and decrypts with the
\* channel it sent on, and the session is then gone; a SessionMessage under
\* an id that names no session is answered with an error, runs no handler
\* and changes nothing in the simulator, its object store included
C36_ClosedSessionIsGone ==
    /\ HandledCloseSession =>
           /\ last.rsp.kind = "Message"
           /\ last.rsp.code = "SessionMessage"
           /\ last.rsp.sid = last.frame.sid
           /\ Channel_decrypt_response(HostChannelAfterSend, last.rsp).ok
           /\ Channel_decrypt_response(HostChannelAfterSend, last.rsp).inner
                  = Inner("CloseSession", "-")
           /\ hsm.sessions[last.frame.sid] = None
           /\ hsm.objects = last.pre.objects
    /\ ToClosedSession =>
           /\ AnsweredError
           /\ last.rsp.inner = NoInner
           /\ hsm = last.pre

\* a message under the id of a session that was closed, which would have
\* stored an object
C36_Witness ==
    /\ ToClosedSession
    /\ last.frame.inner.code = "PutOpaqueObject"
    /\ AnsweredError
    /\ hsm.objects = last.pre.objects
    /\ \E sid \in SessionIds : hsm.sessions[sid] # None

\* the simulator handled a DeleteObject whose data parsed
HandledDeleteObject ==
    /\ ValidMessage
    /\ last.frame.inner.code = "DeleteObject"
    /\ last.frame.inner.data.ok

\* the (id, type) the last command named
DeletedKey == <<last.frame.inner.data.id, last.frame.inner.data.type>>

\* C37: delete_object(id, type) removes the object stored under (id, type)
\* and leaves every other object as it was, those with the same id and
\* another type included; when nothing is stored under (id, type) it
\* answers ObjectNotFound and the store is unchanged
C37_DeleteRemovesExactlyOne ==
    HandledDeleteObject =>
        IF last.pre.objects[DeletedKey] # None
        THEN /\ last.rsp.inner = Inner("DeleteObject", "-")
             /\ hsm.objects[DeletedKey] = None
             /\ \A k \in ObjectKeys \ {DeletedKey} : hsm.objects[k] = last.pre.objects[k]
        ELSE /\ last.rsp.inner = Inner("DeviceError", "ObjectNotFound")
             /\ hsm.objects = last.pre.objects

\* an object was deleted while objects of other types were stored under
\* the same id, and they are still there
C37_Witness ==
    /\ HandledDeleteObject
    /\ last.pre.objects[DeletedKey] # None
    /\ hsm.objects[DeletedKey] = None
    /\ \E k \in ObjectKeys \ {DeletedKey} :
           /\ k[1] = DeletedKey[1]
           /\ last.pre.objects[k] # None
           /\ hsm.objects[k] = last.pre.objects[k]

\* the audit settings of the simulator are as they were before the call
SameAuditSettings ==
    /\ hsm.force_audit = CallPreHsm.force_audit
    /\ hsm.command_audit_options = CallPreHsm.command_audit_options

\* what the calls that set an audit option leave in the simulator
C38_SetStoresOption ==
    /\ (last.op = "set_audit_option" /\ last.result = "Ok") =>
           /\ hsm.command_audit_options[last.arg[1]] = last.arg[2]
           /\ \A c \in AuditCommands \ {last.arg[1]} :
                  hsm.command_audit_options[c] = CallPreHsm.command_audit_options[c]
           /\ hsm.force_audit = CallPreHsm.force_audit
    /\ (last.op = "put_force_audit_option" /\ last.result = "Ok") =>
           /\ hsm.force_audit = last.arg
           /\ hsm.command_audit_options = CallPreHsm.command_audit_options
    /\ (/\ last.op \in {"set_audit_option", "put_force_audit_option"}
        /\ DeviceInOrder
        /\ SentCommand("SetOption")) => last.result = "Ok"

\* what the calls that read an audit option return: the option the
\* simulator holds, Off for a command it holds no option of
C38_GetReadsOption ==
    /\ (last.op = "get_command_audit_option" /\ DeviceInOrder /\ SentCommand("GetOption")) =>
           /\ last.result = "Ok"
           /\ last.value = IF last.arg \in AuditCommands
                           THEN CallPreHsm.command_audit_options[last.arg]
                           ELSE "Off"
           /\ SameAuditSettings
    /\ (last.op = "get_force_audit_option" /\ DeviceInOrder /\ SentCommand("GetOption")) =>
           /\ last.result = "Ok"
           /\ last.value = CallPreHsm.force_audit
           /\ SameAuditSettings

\* a set followed by the get of the same setting
C38_GetAfterSet ==
    /\ (/\ last.op = "set_audit_option"
        /\ last.result = "Ok"
        /\ last'.op = "get_command_audit_option"
        /\ last'.result = "Ok") =>
           last'.value = IF last'.arg = last.arg[1] THEN last.arg[2]
                         ELSE IF last'.arg \in AuditCommands
                         THEN CallPreHsm.command_audit_options[last'.arg]
                         ELSE "Off"
    /\ (/\ last.op = "put_force_audit_option"
        /\ last.result = "Ok"
        /\ last'.op = "get_force_audit_option"
        /\ last'.result = "Ok") => last'.value = last.arg

\* C38: after set_audit_option(cmd, opt) the simulator holds opt for cmd and
\* what it held for every other command, and get_command_audit_option(cmd)
\* returns opt; after put_force_audit_option(opt), get_force_audit_option()
\* returns opt; a command whose option was never set reads as Off; reading
\* an option changes none
C38_AuditOptionsRoundTrip ==
    /\ []C38_SetStoresOption
    /\ []C38_GetReadsOption
    /\ [][C38_GetAfterSet]_vars

\* the option set for Echo is read back while SignEddsa still reads Off
C38_Witness ==
    /\ last.op = "get_command_audit_option"
    /\ last.arg = "Echo"
    /\ last.result = "Ok"
    /\ last.value = "On"
    /\ CallPreHsm.command_audit_options["Echo"] = "On"
    /\ CallPreHsm.command_audit_options["SignEddsa"] = "Off"

(***************************************************************************)
(* Properties of the simulator reading its store (StoreSpec)               *)
(***************************************************************************)
\* the simulator handled the command `code` of an open session
HandledCommand(code) == ValidMessage /\ last.frame.inner.code = code

\* the filters of the last ListObjects command, as they were sent
SentFilters ==
    [j \in 1 .. Len(last.frame.inner.data.bytes) \div 2 |->
        [tag |-> last.frame.inner.data.bytes[2 * j - 1],
         value |-> last.frame.inner.data.bytes[2 * j]]]

\* the object with the attributes `info` satisfies the filter
Satisfies(info, filter) ==
    IF filter.tag = "Algorithm" THEN info.algorithm = filter.value
    ELSE IF filter.tag = "Capabilities"
    THEN \A capability \in filter.value : capability \in info.capabilities
    ELSE IF filter.tag = "Domains"
    THEN \A domain \in filter.value : domain \in info.domains
    ELSE IF filter.tag = "Label" THEN info.label = filter.value
    ELSE IF filter.tag = "Id" THEN info.object_id = filter.value
    ELSE info.object_type = filter.value

\* the keys of the objects stored before the last command
StoredKeys == {k \in ObjectKeys : last.pre.objects[k] # None}

\* the keys of the stored objects that satisfy every filter sent
SelectedKeys ==
    {k \in StoredKeys :
         \A j \in DOMAIN SentFilters :
             Satisfies(last.pre.objects[k][1].object_info, SentFilters[j])}

\* the (id, type) pairs the last response lists
ListedKeys == {<<entry.object_id, entry.object_type>> : entry \in last.rsp.inner.data}

\* C39: list_objects answers with exactly the stored objects that satisfy
\* every filter of the command (a capability or domain filter is satisfied
\* when the object's set contains the filter's), with every stored object
\* when the command carries no filter, and leaves the object store as it was
C39_ListObjectsExact ==
    HandledCommand("ListObjects") =>
        /\ last.rsp.inner.code = "ListObjects"
        /\ ListedKeys = SelectedKeys
        /\ Cardinality(last.rsp.inner.data) = Cardinality(SelectedKeys)
        /\ (SentFilters = <<>> => ListedKeys = StoredKeys)
        /\ hsm.objects = last.pre.objects

\* two filters each of which some stored object satisfies alone, with a
\* stored object listed because it satisfies both and another left out
\* because it satisfies only one
C39_Witness ==
    /\ HandledCommand("ListObjects")
    /\ Len(SentFilters) = 2
    /\ ListedKeys # {}
    /\ \E k \in StoredKeys \ ListedKeys :
           \E j \in DOMAIN SentFilters :
               Satisfies(last.pre.objects[k][1].object_info, SentFilters[j])

\* the commands whose handlers only read the simulator's state
ReadOnlyCommands ==
    {"Echo", "GetObjectInfo", "GetOpaqueObject", "GetPublicKey", "GetOption",
     "SignEddsa", "SignHmac", "VerifyHmac"}

\* the channel of the session after it decrypted the last command and
\* encrypted the response to it
ChannelAfterExchange ==
    Channel_encrypt_response(Channel_decrypt_command(WireAddressed[1], last.frame).ch,
                             last.rsp.inner).ch

\* the last command was answered with the device error `kind`
AnsweredInnerError(kind) == last.rsp.inner = Inner("DeviceError", kind)

\* C40: a command whose handler only reads (echo, get_object_info,
\* get_opaque, get_public_key, get_option, sign_eddsa, sign_hmac,
\* verify_hmac) is answered, with its result, ObjectNotFound or
\* InvalidCommand, and leaves the object store, the audit settings and the
\* sessions table as they were but for the progress of the channel it
\* arrived on
C40_ReadOnlyHandlers ==
    (ValidMessage /\ last.frame.inner.code \in ReadOnlyCommands) =>
        /\ last.rsp.kind = "Message"
        /\ last.rsp.inner.code \in {last.frame.inner.code, "DeviceError"}
        /\ (last.rsp.inner.code = "DeviceError" =>
                last.rsp.inner.data \in {"ObjectNotFound", "InvalidCommand"})
        /\ hsm.objects = last.pre.objects
        /\ hsm.force_audit = last.pre.force_audit
        /\ hsm.command_audit_options = last.pre.command_audit_options
        /\ hsm.sessions = [last.pre.sessions EXCEPT
                               ![last.frame.sid] = Some(ChannelAfterExchange)]

\* an opaque object was read and is still in the store
C40_Witness ==
    /\ HandledCommand("GetOpaqueObject")
    /\ last.rsp.inner = Inner("GetOpaqueObject", "data")
    /\ hsm.objects[<<1, "Opaque">>] = Some(StoredOpaque)
    /\ hsm.force_audit = "On"

====
